---- MODULE Spec2Model ----
(***************************************************************************)
(* Two-way calendar synchronisation of Keysha: the integration-service     *)
(* (sync ledger, webhook ingestion, sync-control routes, full sync), the   *)
(* item-service routes that push local changes, and the calendar provider  *)
(* as the environment.  One user's items and calendar, two users in the    *)
(* subscription registry.  A request handler is one atomic action, a       *)
(* function from a store record to a store record; the specifications of   *)
(* concurrent requests split a handler into its steps between awaits.      *)
(*                                                                         *)
(* Time.  Event times (startDate, endDate, reminderTime) are counted in    *)
(* units of five minutes.  Modification timestamps (updated,               *)
(* lastAppModified, lastGoogleModified, updatedAt) are readings of one     *)
(* wall clock shared by the services and the provider; a handler runs at   *)
(* one clock reading and Tick lets time pass between handlers.             *)
(***************************************************************************)
EXTENDS Integers, Sequences, FiniteSets, TLC

\* ---------------------------------------------------------------- bounds
MaxItems == 2
MaxEvents == 2
MaxClock == 1
MaxT == 2

\* ------------------------------------------------------ program constants
\* 5 * 60 * 1000 ms, the title+time matching tolerance
FiveMin == 1
\* 30 * 60 * 1000 ms, the search window of findCalendarEventByTitleAndTime
ThirtyMin == 6
\* 15 * 60 * 1000 ms, the length of a reminder's calendar block
FifteenMin == 3

\* ----------------------------------------------------------- value space
NoId == 0
NoTime == -1
Names == {"A"}
ItemIds == 1..MaxItems
EventIds == 1..MaxEvents
Times == 0..MaxT
Users == {"u1", "u2"}
NoUser == ""
ResourceIds == {"r1", "r2"}

\* A title is a run of reminder prefixes followed by a name; the name ""
\* is an empty summary.
Title(b, n) == [bells |-> b, name |-> n]

\* `${prefix} ${title}` of the reminder push
WithBell(t) == [t EXCEPT !.bells = @ + 1]

Untitled == Title(0, "Untitled Event")

\* googleEvent.summary || 'Untitled Event'
SummaryOrUntitled(s) == IF s.bells = 0 /\ s.name = "" THEN Untitled ELSE s

\* ------------------------------------------------------------ sync ledger
\* The documents of SyncState with the given googleCalendarId
ByGoogleId(sync, g) == {r \in sync : r.googleCalendarId = g}

\* SyncState.findOne(filter): the first document in natural order
FirstDoc(docs) == CHOOSE r \in docs : \A q \in docs : r.googleCalendarId <= q.googleCalendarId

\* unique: true on itemId and on googleCalendarId
SyncStateSchema(sync) ==
    \A r, q \in sync :
        (r.itemId = q.itemId \/ r.googleCalendarId = q.googleCalendarId) => r = q

\* findOneAndUpdate({googleCalendarId}, {$set: fields}, {upsert: true})
UpsertByGoogleId(sync, g, set, ins) ==
    IF ByGoogleId(sync, g) = {}
    THEN sync \cup {ins}
    ELSE LET old == FirstDoc(ByGoogleId(sync, g))
         IN  (sync \ {old}) \cup {set[old]}

MarkAppModified_keepConflict(sync, itemId, g, now) ==
    UpsertByGoogleId(sync, g,
        [old \in sync |-> [old EXCEPT !.itemId = itemId, !.lastAppModified = now,
                                      !.syncing = TRUE]],
        [itemId |-> itemId, googleCalendarId |-> g, lastGoogleModified |-> NoTime,
         lastAppModified |-> now, syncing |-> TRUE])

MarkAppModified_forgotten(sync, itemId, g, now) == sync

MarkAppModified(sync, itemId, g, now) ==
    LET conflicts == {r \in sync : r.itemId = itemId /\ r.googleCalendarId # g}
        cleaned == IF conflicts = {} THEN sync ELSE sync \ {FirstDoc(conflicts)}
    IN  UpsertByGoogleId(cleaned, g,
            [old \in cleaned |-> [old EXCEPT !.itemId = itemId, !.lastAppModified = now,
                                             !.syncing = TRUE]],
            [itemId |-> itemId, googleCalendarId |-> g, lastGoogleModified |-> NoTime,
             lastAppModified |-> now, syncing |-> TRUE])

ShouldProcessWebhook_needsRecord(sync, g, googleLastModified) ==
    /\ ByGoogleId(sync, g) # {}
    /\ googleLastModified > FirstDoc(ByGoogleId(sync, g)).lastAppModified

ShouldProcessWebhook_notOlder(sync, g, googleLastModified) ==
    IF ByGoogleId(sync, g) = {} THEN TRUE
    ELSE googleLastModified >= FirstDoc(ByGoogleId(sync, g)).lastAppModified

ShouldProcessWebhook(sync, g, googleLastModified) ==
    IF ByGoogleId(sync, g) = {} THEN TRUE
    ELSE googleLastModified > FirstDoc(ByGoogleId(sync, g)).lastAppModified

ShouldProcessWebhookCall_rethrow(sync, g, googleLastModified, answers) ==
    IF ~answers THEN [ret |-> FALSE, err |-> TRUE]
    ELSE [ret |-> ShouldProcessWebhook(sync, g, googleLastModified), err |-> FALSE]

\* shouldProcessWebhook as its caller sees it: the value returned and
\* whether it threw.  A findOne that does not answer throws inside the try
\* block; the catch logs the error and returns true
ShouldProcessWebhookCall(sync, g, googleLastModified, answers) ==
    IF ~answers THEN [ret |-> TRUE, err |-> FALSE]
    ELSE [ret |-> ShouldProcessWebhook(sync, g, googleLastModified), err |-> FALSE]

MarkGoogleModified_stampsNow(sync, itemId, g, googleLastModified, now) ==
    LET conflicts == {r \in sync : r.itemId = itemId /\ r.googleCalendarId # g}
        cleaned == IF conflicts = {} THEN sync ELSE sync \ {FirstDoc(conflicts)}
    IN  UpsertByGoogleId(cleaned, g,
            [old \in cleaned |-> [old EXCEPT !.itemId = itemId,
                                             !.lastGoogleModified = googleLastModified,
                                             !.lastAppModified = now,
                                             !.syncing = FALSE]],
            [itemId |-> itemId, googleCalendarId |-> g,
             lastGoogleModified |-> googleLastModified,
             lastAppModified |-> now, syncing |-> FALSE])

MarkGoogleModified(sync, itemId, g, googleLastModified, now) ==
    LET existing == ByGoogleId(sync, g)
        lastApp == IF existing = {} THEN now ELSE FirstDoc(existing).lastAppModified
        conflicts == {r \in sync : r.itemId = itemId /\ r.googleCalendarId # g}
        cleaned == IF conflicts = {} THEN sync ELSE sync \ {FirstDoc(conflicts)}
    IN  UpsertByGoogleId(cleaned, g,
            [old \in cleaned |-> [old EXCEPT !.itemId = itemId,
                                             !.lastGoogleModified = googleLastModified,
                                             !.lastAppModified = lastApp,
                                             !.syncing = FALSE]],
            [itemId |-> itemId, googleCalendarId |-> g,
             lastGoogleModified |-> googleLastModified,
             lastAppModified |-> lastApp, syncing |-> FALSE])


\* ------------------------------------------------------------- the store
\* A handler threads one record through its steps:
\*   items, sync, remote   the Item collection, the SyncState collection and
\*                         the provider's calendar
\*   subs                  the CalendarSubscription collection
\*   nextItem, nextEvent   the next ObjectId / provider event id
\*   now                   the clock reading of the request
\*   env                   which collaborators answer during the request
\*   strict                whether the build drops filter paths that the
\*                         integration-service Item schema does not declare
\*   err                   an exception is propagating
\*   ret                   the value the last call returned
\*   provWrites            provider writes made by the request; the provider
\*                         answers each with a notification
\*   log                   what each step of the request decided
\*   status, body          the response
Abs(x) == IF x < 0 THEN -x ELSE x

Throw(S) == [S EXCEPT !.err = TRUE]

\* try { ... } catch { log }: the effects before the throw stay
Caught(S) == [S EXCEPT !.err = FALSE]

Logged(S, entry) == [S EXCEPT !.log = @ \cup {entry}]

\* await: what follows a step is a function of the one value the step
\* gave; Then is that function's value
Then(rest) == CHOOSE r \in UNION {{f[x] : x \in DOMAIN f} : f \in {rest}} : TRUE


\* ------------------------------------------------------ provider gateway
\* calendar.events.list({timeMin, timeMax}): events that end after timeMin
\* and start before timeMax
ListEvents(remote, timeMin, timeMax) ==
    {g \in DOMAIN remote : remote[g].end > timeMin /\ remote[g].start < timeMax}

\* The ids of a listing in the order of key, ties by id
RECURSIVE Ordered(_, _)
Ordered(ids, key) ==
    IF ids = {} THEN <<>>
    ELSE LET g == CHOOSE x \in ids : \A y \in ids :
                     key[x] < key[y] \/ (key[x] = key[y] /\ x <= y)
         IN  <<g>> \o Ordered(ids \ {g}, key)

OrderByStart(remote, ids) == Ordered(ids, [g \in ids |-> remote[g].start])

OrderByUpdated(remote, ids) == Ordered(ids, [g \in ids |-> remote[g].updated])

\* getGoogleAccessToken: throws when the auth-service gives no token
GetGoogleAccessToken(S) ==
    IF S.err THEN S ELSE IF ~S.env.cred THEN Throw(S) ELSE S

\* createCalendarEvent: events.insert, returns the new event's id
CreateCalendarEvent(S, title, startDate, endDate) ==
    IF S.err THEN S
    ELSE IF ~S.env.provider THEN Throw(S)
    ELSE [S EXCEPT !.remote = [g \in DOMAIN S.remote \cup {S.nextEvent} |->
                                  IF g = S.nextEvent
                                  THEN [summary |-> title, start |-> startDate,
                                        end |-> endDate, allDay |-> FALSE,
                                        updated |-> S.now]
                                  ELSE S.remote[g]],
                   !.nextEvent = @ + 1,
                   !.provWrites = @ + 1,
                   !.ret = S.nextEvent]

\* title || existing.summary
TitleOr(t, existing) == IF t.name = "" THEN existing ELSE t

TimeOr(t, existing) == IF t = NoTime THEN existing ELSE t

\* updateCalendarEvent: events.get, merge, events.update
UpdateCalendarEvent(S, g, title, startDate, endDate) ==
    IF S.err THEN S
    ELSE IF ~S.env.provider \/ g \notin DOMAIN S.remote THEN Throw(S)
    ELSE [S EXCEPT !.remote[g] = [summary |-> TitleOr(title, @.summary),
                                  start |-> TimeOr(startDate, @.start),
                                  end |-> TimeOr(endDate, @.end),
                                  allDay |-> IF startDate # NoTime /\ endDate # NoTime
                                             THEN FALSE ELSE @.allDay,
                                  updated |-> S.now],
                   !.provWrites = @ + 1]

\* deleteCalendarEvent: events.delete
DeleteCalendarEvent(S, g) ==
    IF S.err THEN S
    ELSE IF ~S.env.provider \/ g \notin DOMAIN S.remote THEN Throw(S)
    ELSE [S EXCEPT !.remote = [x \in DOMAIN S.remote \ {g} |-> S.remote[x]],
                   !.provWrites = @ + 1]

\* eventTitle.substring(2).trim() of a title that starts with the reminder
\* prefix, a bell emoji (two UTF-16 units) and a space: the emoji goes with
\* substring(2), the space with trim()
StripBell(t) == [t EXCEPT !.bells = @ - 1]

FinderMatch_titleOnly(ev, title, startDate) ==
    /\ ~(ev.summary.bells = 0 /\ ev.summary.name = "") /\ ~ev.allDay
    /\ \/ ev.summary = title
       \/ ev.summary.bells > 0 /\ StripBell(ev.summary) = title

\* The callback of events.find: a summary and a start, the title or the
\* title behind the reminder prefix, the start within five minutes
FinderMatch(ev, title, startDate) ==
    /\ ~(ev.summary.bells = 0 /\ ev.summary.name = "") /\ ~ev.allDay
    /\ \/ ev.summary = title
       \/ ev.summary.bells > 0 /\ StripBell(ev.summary) = title
    /\ Abs(ev.start - startDate) <= FiveMin

RECURSIVE FirstMatch(_, _, _, _)
FirstMatch(remote, seq, title, startDate) ==
    IF seq = <<>> THEN NoId
    ELSE IF FinderMatch(remote[Head(seq)], title, startDate) THEN Head(seq)
    ELSE FirstMatch(remote, Tail(seq), title, startDate)

\* findCalendarEventByTitleAndTime: null on any failure
FindCalendarEventByTitleAndTime(S, title, startDate) ==
    IF ~S.env.provider THEN NoId
    ELSE FirstMatch(S.remote,
                    OrderByStart(S.remote,
                        ListEvents(S.remote, startDate - ThirtyMin, startDate + ThirtyMin)),
                    title, startDate)


\* ------------------------------------------- sync-control: calendar/update
\* await markAppModified(...) / await markGoogleModified(...): the write,
\* or the error that the function logs and throws again
SetSync(S, sync) ==
    IF S.err THEN S
    ELSE IF ~S.env.ledger THEN Logged(Throw(S), [kind |-> "ledger"])
    ELSE [S EXCEPT !.sync = sync]

SyncCalendarUpdate_recordFirst(S, itemId, g, title, startDate, endDate) ==
    Then([S1 \in {GetGoogleAccessToken(S)} |->
    Then([S2 \in {SetSync(S1, MarkAppModified(S1.sync, itemId, g, S1.now))} |->
        UpdateCalendarEvent(S2, g, title, startDate, endDate)])])

\* router.post('/calendar/update'): push, then record the push
SyncCalendarUpdate(S, itemId, g, title, startDate, endDate) ==
    Then([S1 \in {GetGoogleAccessToken(S)} |->
    Then([S2 \in {UpdateCalendarEvent(S1, g, title, startDate, endDate)} |->
        IF S2.err THEN S2
        ELSE SetSync(S2, MarkAppModified(S2.sync, itemId, g, S2.now))])])

\* ------------------------------------------------- item-service: PATCH
NoTitle == Title(0, "")

NoData == [title |-> NoTitle, startDate |-> NoTime, endDate |-> NoTime,
           reminderTime |-> NoTime, googleCalendarId |-> NoId]

IdOr(g, existing) == IF g = NoId THEN existing ELSE g

\* updateItem: findOneAndUpdate({_id}, {$set: data})
UpdateItem(S, id, data) ==
    [S EXCEPT !.items[id] =
        [type |-> @.type,
         title |-> TitleOr(data.title, @.title),
         startDate |-> TimeOr(data.startDate, @.startDate),
         endDate |-> TimeOr(data.endDate, @.endDate),
         reminderTime |-> TimeOr(data.reminderTime, @.reminderTime),
         googleCalendarId |-> IdOr(data.googleCalendarId, @.googleCalendarId)]]

\* router.patch('/:id'): update, then push the update, failures non-fatal
ItemsPatch(S, id, data) ==
    IF S.err THEN S
    ELSE IF id \notin DOMAIN S.items THEN Throw(S)
    ELSE Then([S1 \in {UpdateItem(S, id, data)} |->
         LET item == S1.items[id]
         IN  IF item.type = "event" /\ item.googleCalendarId # NoId
             THEN Caught(SyncCalendarUpdate(S1, id, item.googleCalendarId,
                             data.title, data.startDate, data.endDate))
             ELSE IF item.type = "reminder" /\ item.googleCalendarId # NoId
                     /\ item.reminderTime # NoTime
             THEN LET startDate == TimeOr(data.reminderTime, item.reminderTime)
                  IN  Caught(SyncCalendarUpdate(S1, id, item.googleCalendarId,
                                 WithBell(TitleOr(data.title, item.title)),
                                 startDate, startDate + FifteenMin))
             ELSE S1])

\* ------------------------------------------- sync-control: calendar/create
\* getCalendarEvent + markGoogleModified of the link branch, in its try
LinkMark(S, itemId, g) ==
    IF ~S.env.provider \/ g \notin DOMAIN S.remote THEN S
    ELSE Caught(SetSync(S, MarkGoogleModified(S.sync, itemId, g, S.remote[g].updated,
                                              S.now)))

\* router.post('/calendar/create'): link to a matching remote event or
\* create one; returns the googleCalendarId
SyncCalendarCreate(S, itemId, title, startDate, endDate) ==
    Then([S1 \in {GetGoogleAccessToken(S)} |->
    Then([existingId \in {FindCalendarEventByTitleAndTime(S1, title, startDate)} |->
        IF S1.err THEN S1
        ELSE IF existingId # NoId
        THEN Then([S2 \in {Caught(ItemsPatch(S1, itemId,
                             [NoData EXCEPT !.googleCalendarId = existingId]))} |->
             Then([S3 \in {LinkMark(S2, itemId, existingId)} |->
                 [S3 EXCEPT !.ret = existingId]])])
        ELSE Then([S2 \in {CreateCalendarEvent(S1, title, startDate, endDate)} |->
                 IF S2.err THEN S2
                 ELSE SetSync(S2, MarkAppModified(S2.sync, itemId, S2.ret, S2.now))])])])

\* --------------------------------------------------- item-service: POST
\* syncEventToCalendar: the googleCalendarId, or null on any failure
SyncEventToCalendar_rethrow(S, itemId, title, startDate, endDate) ==
    SyncCalendarCreate(S, itemId, title, startDate, endDate)

SyncEventToCalendar(S, itemId, title, startDate, endDate) ==
    Then([S1 \in {SyncCalendarCreate(S, itemId, title, startDate, endDate)} |->
        IF S1.err THEN [Caught(S1) EXCEPT !.ret = NoId] ELSE S1])

\* Item.create(data)
InsertItem(S, id, data, type) ==
    [S EXCEPT !.items = [i \in DOMAIN S.items \cup {id} |->
                            IF i = id
                            THEN [type |-> type, title |-> data.title,
                                  startDate |-> data.startDate,
                                  endDate |-> data.endDate,
                                  reminderTime |-> data.reminderTime,
                                  googleCalendarId |-> data.googleCalendarId]
                            ELSE S.items[i]],
              !.nextItem = @ + 1]

\* router.post('/'): create the item, push events and reminders to the
\* calendar, store the returned googleCalendarId; returns the item's id
ItemsPost(S, data, type) ==
    IF S.err THEN S
    ELSE Then([id \in {S.nextItem} |->
         Then([S1 \in {InsertItem(S, id, data, type)} |->
         Then([S2 \in {IF type = "event" /\ data.startDate # NoTime /\ data.endDate # NoTime
              THEN SyncEventToCalendar(S1, id, data.title, data.startDate, data.endDate)
              ELSE IF type = "reminder" /\ data.reminderTime # NoTime
              THEN SyncEventToCalendar(S1, id, WithBell(data.title),
                       data.reminderTime, data.reminderTime + FifteenMin)
              ELSE [S1 EXCEPT !.ret = NoId]} |->
         Then([S3 \in {IF S2.ret # NoId /\ id \in DOMAIN S2.items
              THEN UpdateItem(S2, id, [NoData EXCEPT !.googleCalendarId = S2.ret])
              ELSE S2} |->
             [S3 EXCEPT !.ret = id]])])])])


\* ------------------------------------- integration-service: Item queries
MinId(ids) == IF ids = {} THEN NoId ELSE CHOOSE i \in ids : \A j \in ids : i <= j

\* Item.findOne({googleCalendarId, userId})
FindByGoogleId(items, g) == MinId({i \in DOMAIN items : items[i].googleCalendarId = g})

Near(t, startDate) == t # NoTime /\ t >= startDate - FiveMin /\ t <= startDate + FiveMin

\* Item.findOne({type: {$in: ['event', 'reminder']}, title,
\*               $or: [{startDate: +-5min}, {reminderTime: +-5min}]});
\* the schema declares no reminderTime, a strict build drops that branch
FindByTitleAndTime(S, title, startDate) ==
    MinId({i \in DOMAIN S.items :
              /\ S.items[i].title = title
              /\ \/ Near(S.items[i].startDate, startDate)
                 \/ ~S.strict /\ Near(S.items[i].reminderTime, startDate)})

Between(t, lo, hi) == t # NoTime /\ t >= lo /\ t <= hi

\* Item.findByIdAndUpdate(_id, {googleCalendarId})
LinkItem(S, id, g) == [S EXCEPT !.items[id].googleCalendarId = g]

WriteItemFromEvent_viaPatch(S, id, g, title) ==
    Caught(ItemsPatch(S, id, [NoData EXCEPT !.title = title,
                                            !.startDate = S.remote[g].start,
                                            !.endDate = S.remote[g].end]))

\* Item.findByIdAndUpdate(_id, {$set: {title, startDate, endDate, ...}})
\* start?.dateTime ? new Date(...) : undefined
DateOrUndefined(S, ev, t, stored) ==
    IF ~ev.allDay THEN t ELSE IF S.env.omitUndefined THEN stored ELSE NoTime

WriteItemFromEvent_thenPush(S, id, g, title) ==
    Caught(UpdateCalendarEvent(
        [S EXCEPT !.items[id].title = title,
                  !.items[id].startDate = DateOrUndefined(S, S.remote[g], S.remote[g].start, @),
                  !.items[id].endDate = DateOrUndefined(S, S.remote[g], S.remote[g].end, @)],
        g, title, NoTime, NoTime))

WriteItemFromEvent(S, id, g, title) ==
    [S EXCEPT !.items[id].title = title,
              !.items[id].startDate = DateOrUndefined(S, S.remote[g], S.remote[g].start, @),
              !.items[id].endDate = DateOrUndefined(S, S.remote[g], S.remote[g].end, @)]

\* Item.findByIdAndDelete(_id); SyncState.deleteOne({itemId})
DeleteItemAndState(S, id) ==
    [S EXCEPT !.items = [i \in DOMAIN S.items \ {id} |-> S.items[i]],
              !.sync = {r \in S.sync : r.itemId # id}]

RECURSIVE DeleteMissing(_, _, _)
DeleteMissing(S, ids, listed) ==
    IF ids = {} THEN S
    ELSE Then([id \in {MinId(ids)} |->
         Then([S1 \in {IF S.items[id].googleCalendarId \notin listed
              THEN Logged(DeleteItemAndState(S, id), [kind |-> "delete", item |-> id])
              ELSE S} |->
             DeleteMissing(S1, ids \ {id}, listed)])])

\* What a remote-to-local write overwrites
Applied(S, id, g) ==
    [kind |-> "apply", g |-> g, item |-> id, updated |-> S.remote[g].updated,
     had |-> \E r \in S.sync : r.itemId = id]

\* ------------------------------------------------ webhook notification
\* The rest of an iteration once shouldProcessWebhook said yes: find the
\* item by googleCalendarId, else by title and time (and link it), update
\* it, else create it.  The re-checks before the create repeat the two
\* queries on the same collection and find what they found.
WebhookApply(S, g) ==
    Then([ev \in {S.remote[g]} |->
    Then([byId \in {FindByGoogleId(S.items, g)} |->
    Then([byTitle \in {IF byId = NoId /\ ~ev.allDay
         THEN FindByTitleAndTime(S, SummaryOrUntitled(ev.summary), ev.start)
         ELSE NoId} |->
    Then([existing \in {IF byId # NoId THEN byId ELSE byTitle} |->
    Then([S1 \in {IF byTitle # NoId THEN LinkItem(S, byTitle, g) ELSE S} |->
        IF existing # NoId
        THEN Then([S2 \in {WriteItemFromEvent(Logged(S1, Applied(S1, existing, g)),
                                     existing, g, ev.summary)} |->
                 SetSync(S2, MarkGoogleModified(S2.sync, existing, g, ev.updated, S2.now))])
        ELSE IF ev.allDay THEN S1
        ELSE Then([S2 \in {InsertItem(S1, S1.nextItem,
                             [NoData EXCEPT !.title = SummaryOrUntitled(ev.summary),
                                            !.startDate = ev.start, !.endDate = ev.end,
                                            !.googleCalendarId = g], "event")} |->
                 SetSync(Logged(S2, [kind |-> "create", g |-> g, item |-> S1.nextItem]),
                         MarkGoogleModified(S2.sync, S1.nextItem, g, ev.updated, S2.now))])])])])])])

\* What shouldProcessWebhook saw and said
Checked(S, g, updated, process) ==
    [kind |-> "check", g |-> g, had |-> ByGoogleId(S.sync, g) # {},
     lastApp |-> IF ByGoogleId(S.sync, g) = {} THEN NoTime
                 ELSE FirstDoc(ByGoogleId(S.sync, g)).lastAppModified,
     updated |-> updated, process |-> process]

\* One iteration of the loop over the listed events
WebhookEvent(S, g) ==
    IF S.err THEN S
    ELSE
    Then([call \in {ShouldProcessWebhookCall(S.sync, g, S.remote[g].updated, S.env.lookup)} |->
    Then([S1 \in {Logged(S, Checked(S, g, S.remote[g].updated, call.ret))} |->
        IF call.err THEN Throw(S1)
        ELSE IF ~call.ret THEN S1 ELSE WebhookApply(S1, g)])])

RECURSIVE WebhookLoop(_, _)
WebhookLoop(S, seq) ==
    IF seq = <<>> THEN S
    ELSE Then([S1 \in {WebhookEvent(S, Head(seq))} |-> WebhookLoop(S1, Tail(seq))])


\* Item.find({googleCalendarId: {$exists: true, $ne: null},
\*            $or: [{startDate: in window}, {reminderTime: in window}]}) with
\* the ISO strings timeMin, timeMax: cast to dates for startDate, never
\* equal in type to a stored reminderTime
WebhookLinkedInWindow(S, timeMin, timeMax) ==
    {i \in DOMAIN S.items : /\ S.items[i].googleCalendarId # NoId
                            /\ Between(S.items[i].startDate, timeMin, timeMax)}

Respond(S, status) == [S EXCEPT !.status = status, !.ackAfter = S.work]

Work(S) == [S EXCEPT !.work = @ + 1]

\* The loop over the listing, after the registry lookup, the credential
\* request and the provider's listing
WebhookUpserts(S, timeMin, timeMax) ==
    Then([S1 \in {Work(Work(Work(S)))} |->
    Then([seq \in {OrderByUpdated(S.remote, ListEvents(S.remote, timeMin, timeMax))} |->
        WebhookLoop(S1, seq)])])

\* The deletions: linked items of the window whose event is not listed
WebhookSweep(S, timeMin, timeMax, listed) ==
    Then([ids \in {WebhookLinkedInWindow(S, timeMin, timeMax)} |->
        DeleteMissing(S, ids, listed)])

\* router.post('/google/calendar') after the acknowledgment
WebhookProcess(S, rid, timeMin, timeMax) ==
    IF rid = "none" THEN S
    ELSE IF rid = "unknown" THEN Work(S)
    ELSE IF ~S.env.serviceToken THEN Work(S)
    ELSE IF ~S.env.cred THEN Work(Work(S))
    ELSE IF ~S.env.provider THEN Throw(Work(Work(Work(S))))
    ELSE Then([listed \in {ListEvents(S.remote, timeMin, timeMax)} |->
         Then([S1 \in {WebhookUpserts(S, timeMin, timeMax)} |->
             IF S1.err THEN S1 ELSE WebhookSweep(S1, timeMin, timeMax, listed)])])

WebhookPost_ackLast(S, rid, timeMin, timeMax) ==
    Then([S1 \in {WebhookProcess(S, rid, timeMin, timeMax)} |->
        IF S1.err THEN Respond(Caught(S1), 500) ELSE Respond(S1, 200)])

\* router.post('/google/calendar'): acknowledge, then process; a failure
\* is caught and logged
WebhookPost(S, rid, timeMin, timeMax) ==
    Then([S1 \in {Respond(S, 200)} |->
        Caught(WebhookProcess(S1, rid, timeMin, timeMax))])



\* ------------------------------------------------ sync-control: full sync
\* 60 * 60 * 1000 ms, added when an event's start and end are equal
OneHour == 12

Count(S, field) == IF S.err THEN S ELSE [S EXCEPT !.stats[field] = @ + 1]

\* const syncState = await SyncState.findOne({googleCalendarId});
\* !syncState || googleLastModified > syncState.lastAppModified
ShouldUpdate(sync, g, googleLastModified) ==
    \/ ByGoogleId(sync, g) = {}
    \/ googleLastModified > FirstDoc(ByGoogleId(sync, g)).lastAppModified

\* updateItemFromCalendar: PATCH /items/:id of the item-service
UpdateItemFromCalendar(S, id, ev) ==
    ItemsPatch(S, id, [NoData EXCEPT !.title = SummaryOrUntitled(ev.summary),
                                     !.startDate = ev.start, !.endDate = ev.end])

\* createItemFromCalendar, then the verification of the stored
\* googleCalendarId with its repair, then markGoogleModified
CreateFromCalendar(S, g, ev) ==
    Then([S1 \in {ItemsPost(S, [NoData EXCEPT !.title = SummaryOrUntitled(ev.summary),
                                     !.startDate = ev.start, !.endDate = ev.end,
                                     !.googleCalendarId = g], "event")} |->
        IF S1.err THEN S1
        ELSE Then([id \in {S1.ret} |->
             Then([S2 \in {IF S1.items[id].googleCalendarId = g THEN S1
                  ELSE Caught(ItemsPatch(S1, id, [NoData EXCEPT !.googleCalendarId = g]))} |->
                 Count(SetSync(Logged(S2, [kind |-> "create", g |-> g, item |-> id]),
                               MarkGoogleModified(S2.sync, id, g, ev.updated, S2.now)),
                       "created")])])])

\* Step 2, one listed event with start and end; snap is the listing
FullEvent(S, snap, g) ==
    IF S.err THEN S
    ELSE
    Then([ev \in {snap[g]} |->
    Then([byId \in {FindByGoogleId(S.items, g)} |->
    Then([byTitle \in {IF byId = NoId
         THEN FindByTitleAndTime(S, SummaryOrUntitled(ev.summary), ev.start)
         ELSE NoId} |->
    Then([existing \in {IF byId # NoId THEN byId ELSE byTitle} |->
    Then([S1 \in {IF byTitle # NoId THEN LinkItem(S, byTitle, g) ELSE S} |->
        IF existing # NoId
        THEN IF ShouldUpdate(S1.sync, g, ev.updated)
             THEN Then([S2 \in {Logged(S1, Applied(S1, existing, g))} |->
                  Then([S3 \in {UpdateItemFromCalendar(S2, existing, ev)} |->
                      IF S3.err THEN S3
                      ELSE Count(SetSync(S3, MarkGoogleModified(S3.sync, existing, g,
                                                               ev.updated, S3.now)),
                                 "updated")])])
             ELSE S1
        ELSE CreateFromCalendar(S1, g, ev)])])])])])

RECURSIVE FullLoop(_, _, _)
FullLoop(S, snap, seq) ==
    IF seq = <<>> THEN S
    ELSE Then([S1 \in {FullEvent(S, snap, Head(seq))} |-> FullLoop(S1, snap, Tail(seq))])

\* Step 2.5: linked items of the window, by startDate or reminderTime
FullLinkedInWindow(S, startDate, endDate) ==
    {i \in DOMAIN S.items :
        /\ S.items[i].googleCalendarId # NoId
        /\ \/ Between(S.items[i].startDate, startDate, endDate)
           \/ ~S.strict /\ Between(S.items[i].reminderTime, startDate, endDate)}

\* Step 3: items of the window that carry no googleCalendarId
FullUnlinkedInWindow_all(S, startDate, endDate) ==
    {i \in DOMAIN S.items :
        \/ Between(S.items[i].startDate, startDate, endDate)
        \/ ~S.strict /\ Between(S.items[i].reminderTime, startDate, endDate)}

FullUnlinkedInWindow(S, startDate, endDate) ==
    {i \in DOMAIN S.items :
        /\ S.items[i].googleCalendarId = NoId
        /\ \/ Between(S.items[i].startDate, startDate, endDate)
           \/ ~S.strict /\ Between(S.items[i].reminderTime, startDate, endDate)}

\* markGoogleModified with the listing's timestamp, else (events only)
\* with the fetched one
MarkLinked(S, snap, id, g, fetch) ==
    IF g \in DOMAIN snap
    THEN SetSync(S, MarkGoogleModified(S.sync, id, g, snap[g].updated, S.now))
    ELSE IF fetch THEN LinkMark(S, id, g) ELSE S

\* Step 3 for one item: link it to a matching remote event or create one
FullPush(S, snap, id, fetch, title, startDate, createStart, createEnd) ==
    Then([found \in {FindCalendarEventByTitleAndTime(S, title, startDate)} |->
        IF found # NoId
        THEN Then([S1 \in {LinkItem(S, id, found)} |->
                 Count(MarkLinked(S1, snap, id, found, fetch), "pushUpdated")])
        ELSE Then([S1 \in {CreateCalendarEvent(S, title, createStart, createEnd)} |->
                 IF S1.err THEN S1
                 ELSE Count(SetSync(LinkItem(S1, id, S1.ret),
                                    MarkAppModified(S1.sync, id, S1.ret, S1.now)),
                            "pushCreated")])])

\* appEvent is the document as the query of step 3 returned it; reversed
\* dates of an event are swapped, equal ones get an hour
FullItem(S, snap, id, appEvent) ==
    IF S.err THEN S
    ELSE IF appEvent.type = "event"
    THEN IF appEvent.startDate = NoTime \/ appEvent.endDate = NoTime THEN S
         ELSE LET reversed == appEvent.endDate <= appEvent.startDate
                  finalStart == IF reversed THEN appEvent.endDate ELSE appEvent.startDate
                  swappedEnd == IF reversed THEN appEvent.startDate ELSE appEvent.endDate
                  finalEnd == IF reversed /\ swappedEnd = finalStart
                              THEN finalStart + OneHour ELSE swappedEnd
              IN  FullPush(S, snap, id, TRUE, appEvent.title, appEvent.startDate,
                           finalStart, finalEnd)
    ELSE IF appEvent.startDate # NoTime
    THEN FullPush(S, snap, id, FALSE, WithBell(appEvent.title), appEvent.startDate,
                  appEvent.startDate, appEvent.startDate + FifteenMin)
    ELSE S

RECURSIVE FullPushLoop(_, _, _, _)
FullPushLoop(S, snap, docs, ids) ==
    IF ids = {} THEN S
    ELSE Then([id \in {MinId(ids)} |->
         Then([S1 \in {FullItem(S, snap, id, docs[id])} |->
             FullPushLoop(S1, snap, docs, ids \ {id})])])

NoStats == [created |-> 0, updated |-> 0, deleted |-> 0, pushCreated |-> 0, pushUpdated |-> 0]

\* if (!googleEvent.start?.dateTime || !googleEvent.end?.dateTime) continue:
\* step 2 neither processes nor registers an event without both
Timed(remote, ids) == {g \in ids : ~remote[g].allDay}

\* Steps 1 and 2: the credential, the listing, the loop over the listing
FullUpserts(S, startDate, endDate) ==
    Then([S0 \in {GetGoogleAccessToken(S)} |->
        IF S0.err THEN S0
        ELSE IF ~S0.env.provider THEN Throw(S0)
        ELSE Then([seq \in {OrderByStart(S0.remote,
                                Timed(S0.remote, ListEvents(S0.remote, startDate, endDate)))} |->
                   FullLoop(S0, S0.remote, seq)])])

\* Step 2.5: the deletions, counted
FullSweep(S, startDate, endDate, listed) ==
    Then([ids \in {FullLinkedInWindow(S, startDate, endDate)} |->
    Then([S1 \in {DeleteMissing(S, ids, listed)} |->
        [S1 EXCEPT !.stats.deleted =
                       Cardinality(DOMAIN S.items) - Cardinality(DOMAIN S1.items)]])])

\* router.post('/full')
SyncFull(S, startDate, endDate) ==
    Then([listed \in {Timed(S.remote, ListEvents(S.remote, startDate, endDate))} |->
    Then([snap \in {[g \in listed |-> S.remote[g]]} |->
    Then([S1 \in {FullUpserts(S, startDate, endDate)} |->
    Then([S2 \in {IF S1.err THEN S1 ELSE FullSweep(S1, startDate, endDate, listed)} |->
    Then([S3 \in {IF S2.err THEN S2
         ELSE FullPushLoop(S2, snap, S2.items,
                           FullUnlinkedInWindow(S2, startDate, endDate))} |->
        IF S3.err THEN Respond(S3, 500) ELSE Respond(S3, 200)])])])])])


\* ------------------------------------------- sync-control: calendar/delete
\* router.post('/calendar/delete')
SyncCalendarDelete(S, g) ==
    Then([S1 \in {GetGoogleAccessToken(S)} |-> DeleteCalendarEvent(S1, g)])

\* -------------------------------------------------- item-service: DELETE
\* router.delete('/:id'): push the deletion of an event, then deleteItem
ItemsDelete(S, id) ==
    Then([item \in {S.items[id]} |->
    Then([S1 \in {IF item.type = "event" /\ item.googleCalendarId # NoId
         THEN Caught(SyncCalendarDelete(S, item.googleCalendarId))
         ELSE S} |->
        [S1 EXCEPT !.items = [i \in DOMAIN S1.items \ {id} |-> S1.items[i]]]])])


\* ------------------------------------------------ webhook verification
WebhookGet_always200(S, token) == [S EXCEPT !.status = 200, !.body = token]

\* router.get('/google/calendar'): echo the challenge token; a missing
\* token and an empty one are both falsy, "" stands for either
WebhookGet(S, token) ==
    IF token # ""
    THEN [S EXCEPT !.status = 200, !.body = token]
    ELSE [S EXCEPT !.status = 400, !.body = "Missing challenge token"]

\* ------------------------------------------------- subscription registry
\* unique: true on resourceId and on channelId
CalendarSubscriptionSchema(subs) ==
    \A a, b \in subs :
        (a.resourceId = b.resourceId \/ a.channelId = b.channelId) => a = b

\* CalendarSubscription.findOne(filter): the first document in natural order
FirstSub(docs) == CHOOSE a \in docs : \A b \in docs : a.channelId <= b.channelId

\* getUserIdFromResourceId: the userId of the subscription, else null
GetUserIdFromResourceId(subs, resourceId) ==
    IF {a \in subs : a.resourceId = resourceId} = {} THEN NoUser
    ELSE FirstSub({a \in subs : a.resourceId = resourceId}).userId

\* findOneAndUpdate({userId}, {$set: {resourceId, channelId, expiration}},
\* {upsert: true}) without the unique indexes
UpsertByUserId(subs, userId, resourceId, channelId) ==
    IF {a \in subs : a.userId = userId} = {}
    THEN subs \cup {[userId |-> userId, resourceId |-> resourceId, channelId |-> channelId]}
    ELSE (subs \ {FirstSub({a \in subs : a.userId = userId})})
         \cup {[userId |-> userId, resourceId |-> resourceId, channelId |-> channelId]}

StoreSubscription_insert(S, userId, resourceId, channelId) ==
    IF S.err THEN S
    ELSE [S EXCEPT !.subs = @ \cup {[userId |-> userId, resourceId |-> resourceId,
                                      channelId |-> channelId]}]

\* storeSubscription: the upsert; a write that would break a unique index
\* is rejected with a duplicate key error, which is rethrown
StoreSubscription(S, userId, resourceId, channelId) ==
    IF S.err THEN S
    ELSE Then([subs \in {UpsertByUserId(S.subs, userId, resourceId, channelId)} |->
             IF CalendarSubscriptionSchema(subs) THEN [S EXCEPT !.subs = subs]
             ELSE Throw(S)])

\* subscribeToCalendar: events.watch with the channel id `channel-${Date.now()}`;
\* the provider answers with the id of the watched resource
SubscribeToCalendar(S, resourceId) ==
    IF S.err THEN S
    ELSE IF ~S.env.provider THEN Throw(S)
    ELSE Logged(S, [kind |-> "watch", channelId |-> S.now, resourceId |-> resourceId])

\* unsubscribeFromCalendar: channels.stop
UnsubscribeFromCalendar(S, channelId, resourceId) ==
    IF S.err THEN S
    ELSE IF ~S.env.provider THEN Throw(S)
    ELSE Logged(S, [kind |-> "stop", channelId |-> channelId, resourceId |-> resourceId])

\* router.post('/calendar') of the subscriptions: credential, watch, store
SubscriptionsPost(S, userId, resourceId) ==
    Then([S1 \in {GetGoogleAccessToken(S)} |->
    Then([S2 \in {SubscribeToCalendar(S1, resourceId)} |->
    Then([S3 \in {StoreSubscription(S2, userId, resourceId, S2.now)} |->
        IF S3.err THEN Respond(S3, 500) ELSE Respond(S3, 200)])])])

SubscriptionsDelete_deleteFirst(S, userId) ==
    IF {a \in S.subs : a.userId = userId} = {} THEN Respond(Throw(S), 404)
    ELSE Then([subscription \in {FirstSub({a \in S.subs : a.userId = userId})} |->
         Then([S1 \in {GetGoogleAccessToken([S EXCEPT !.subs = @ \ {subscription}])} |->
         Then([S2 \in {UnsubscribeFromCalendar(S1, subscription.channelId,
                                               subscription.resourceId)} |->
             IF S2.err THEN Respond(S2, 500) ELSE Respond(S2, 200)])])])

\* router.delete('/calendar') of the subscriptions: 404 without a
\* subscription, else credential, stop, delete
SubscriptionsDelete(S, userId) ==
    IF {a \in S.subs : a.userId = userId} = {} THEN Respond(Throw(S), 404)
    ELSE Then([subscription \in {FirstSub({a \in S.subs : a.userId = userId})} |->
         Then([S1 \in {GetGoogleAccessToken(S)} |->
         Then([S2 \in {UnsubscribeFromCalendar(S1, subscription.channelId,
                                               subscription.resourceId)} |->
             IF S2.err THEN Respond(S2, 500)
             ELSE Respond([S2 EXCEPT !.subs = @ \ {subscription}], 200)])])])

\* ------------------------------------------------------------- the state
VARIABLES items, syncStates, subscriptions, remote, nextItem, nextEvent, clock, strict,
          procs

vars == <<items, syncStates, subscriptions, remote, nextItem, nextEvent, clock, strict, procs>>

MaxBells == 1

\* Two requests in flight at once
Procs == {1, 2}

\* A request in flight: the handler it runs, the await it stands at, the
\* ids it works on, what its queries returned, whether it threw
Idle == [kind |-> "", pc |-> "idle", itemId |-> NoId, g |-> NoId, found |-> NoId,
         lastApp |-> NoTime, failed |-> FALSE]

\* cred, provider, serviceToken, ledger: the collaborator answers.
\* omitUndefined: the build's Mongoose strips undefined keys from an update
\* (else it writes them as null)
\* lookup: the SyncState.findOne of shouldProcessWebhook answers
AllUp == [cred |-> TRUE, provider |-> TRUE, serviceToken |-> TRUE, ledger |-> TRUE,
          omitUndefined |-> TRUE, lookup |-> TRUE]

\* Which collaborators answer during a request of the user
Envs == {e \in [cred : BOOLEAN, provider : BOOLEAN, serviceToken : BOOLEAN,
                    ledger : {TRUE}, omitUndefined : {TRUE}, lookup : {TRUE}] :
            e.serviceToken /\ (e.cred \/ e.provider)}

\* ... and during the processing of a notification
WebhookEnvs == {e \in [cred : BOOLEAN, provider : BOOLEAN, serviceToken : BOOLEAN,
                    ledger : {TRUE}, omitUndefined : {TRUE}, lookup : {TRUE}] :
                   Cardinality({f \in {"cred", "provider", "serviceToken"} : ~e[f]}) <= 1}

\* A window in event time: all of it, its later part, its earlier part
Windows == {<<-1, MaxT + 4>>, <<1, MaxT + 4>>, <<-1, 1>>}

\* The notifications told apart: one of a channel of the user, swept over
\* each window with each collaborator failing, and the two that stop early
WebhookRequests ==
    {[env |-> e, rid |-> "known", timeMin |-> w[1], timeMax |-> w[2]] :
        e \in WebhookEnvs, w \in Windows}
    \cup {[env |-> AllUp, rid |-> r, timeMin |-> -1, timeMax |-> MaxT + 4] :
              r \in {"none", "unknown"}}

\* The store a request starts from
Store(env) ==
    [items |-> items, sync |-> syncStates, subs |-> subscriptions, remote |-> remote,
     nextItem |-> nextItem, nextEvent |-> nextEvent,
     now |-> clock, env |-> env, strict |-> strict, err |-> FALSE, ret |-> NoId,
     provWrites |-> 0, work |-> 0, log |-> {}, stats |-> NoStats,
     status |-> 0, body |-> "", ackAfter |-> 0]

\* The store the next request starts from
After(S, env) ==
    [S EXCEPT !.env = env, !.err = FALSE, !.ret = NoId, !.provWrites = 0, !.work = 0,
              !.log = {}, !.stats = NoStats, !.status = 0, !.body = "", !.ackAfter = 0]

\* The same store one clock reading later
Later(S) == [S EXCEPT !.now = @ + 1]

InBounds(S) ==
    /\ S.nextItem <= MaxItems + 1
    /\ S.nextEvent <= MaxEvents + 1
    /\ \A i \in DOMAIN S.items : S.items[i].title.bells <= MaxBells
    /\ \A g \in DOMAIN S.remote : S.remote[g].summary.bells <= MaxBells

\* What a step of a request left behind in the collections and the calendar
Write(S) ==
    /\ InBounds(S)
    /\ items' = S.items
    /\ syncStates' = S.sync
    /\ subscriptions' = S.subs
    /\ remote' = S.remote
    /\ nextItem' = S.nextItem
    /\ nextEvent' = S.nextEvent
    /\ UNCHANGED <<clock, strict>>

\* What a request that ran alone left behind
Commit(S) == Write(S) /\ UNCHANGED procs

Init ==
    /\ items = <<>>
    /\ syncStates = {}
    /\ subscriptions = {}
    /\ remote = <<>>
    /\ nextItem = 1
    /\ nextEvent = 1
    /\ clock = 0
    /\ strict = FALSE
    /\ procs = [p \in Procs |-> Idle]

EventData(n, t) == [NoData EXCEPT !.title = Title(0, n), !.startDate = t, !.endDate = t + 1]

ReminderData(n, t) == [NoData EXCEPT !.title = Title(0, n), !.reminderTime = t]

\* The user creates an event in the app
UserCreateEvent ==
    \E env \in Envs, n \in Names, t \in Times :
        \E S \in {ItemsPost(Store(env), EventData(n, t), "event")} : Commit(S)

\* The startDate a request for a reminder carries: none, or the first time
ReminderStarts == {NoTime, 0}

\* The user creates a reminder in the app; the request may carry a
\* startDate as well (createItemSchema takes one for every type)
UserCreateReminder ==
    \E env \in Envs, n \in Names, t \in Times, s \in ReminderStarts :
        \E S \in {ItemsPost(Store(env), [ReminderData(n, t) EXCEPT !.startDate = s],
                            "reminder")} : Commit(S)

\* What the user changes when moving an item to time t
MoveData(item, t) ==
    IF item.type = "event" THEN [NoData EXCEPT !.startDate = t, !.endDate = t + 1]
    ELSE [NoData EXCEPT !.reminderTime = t]

\* The user moves an event or a reminder in the app
UserEditItem ==
    \E env \in Envs, id \in DOMAIN items, t \in Times :
        \E S \in {ItemsPatch(Store(env), id, MoveData(items[id], t))} : Commit(S)

\* The user deletes an item in the app
UserDeleteItem ==
    \E env \in Envs, id \in DOMAIN items :
        \E S \in {ItemsDelete(Store(env), id)} : Commit(S)

\* The user creates an event in the provider's calendar
RemoteCreate ==
    \E n \in Names, t \in Times :
        \E S \in {CreateCalendarEvent(Store(AllUp), Title(0, n), t, t + 1)} : Commit(S)

\* The user moves an event in the provider's calendar
RemoteMove ==
    \E g \in DOMAIN remote, t \in Times :
        \E S \in {UpdateCalendarEvent(Store(AllUp), g, NoTitle, t,
                                    t + remote[g].end - remote[g].start)} : Commit(S)

\* The user deletes an event in the provider's calendar
RemoteDelete ==
    \E g \in DOMAIN remote :
        \E S \in {DeleteCalendarEvent(Store(AllUp), g)} : Commit(S)

\* The provider posts a notification.  A notification carries no event
\* data and the provider sends one after every change of the calendar, at
\* channel creation and again when it saw no answer, so one can arrive in
\* any state.
Webhook ==
    \E q \in WebhookRequests :
        \E S \in {WebhookPost(Store(q.env), q.rid, q.timeMin, q.timeMax)} : Commit(S)

\* The user asks for a full sync of a window
FullSync ==
    \E env \in Envs, w \in Windows :
        \E S \in {SyncFull(Store(env), w[1], w[2])} : Commit(S)

Tick ==
    /\ clock < MaxClock
    /\ clock' = clock + 1
    /\ UNCHANGED <<items, syncStates, subscriptions, remote, nextItem, nextEvent, strict, procs>>

\* The app with events
Next ==
    \/ UserCreateEvent
    \/ UserEditItem
    \/ UserDeleteItem
    \/ RemoteCreate
    \/ RemoteMove
    \/ RemoteDelete
    \/ Webhook
    \/ FullSync
    \/ Tick

Spec == Init /\ [][Next]_vars

\* The app with reminders, in either build
InitReminder ==
    /\ items = <<>>
    /\ syncStates = {}
    /\ subscriptions = {}
    /\ remote = <<>>
    /\ nextItem = 1
    /\ nextEvent = 1
    /\ clock = 0
    /\ strict \in BOOLEAN
    /\ procs = [p \in Procs |-> Idle]

NextReminder ==
    \/ UserCreateReminder
    \/ UserEditItem
    \/ UserDeleteItem
    \/ RemoteMove
    \/ RemoteDelete
    \/ Webhook
    \/ FullSync
    \/ Tick

ReminderSpec == InitReminder /\ [][NextReminder]_vars


\* ------------------------------------------------------- the ledger alone
\* Any caller records a local push for any pair of ids
CallMarkAppModified ==
    \E itemId \in ItemIds, g \in EventIds :
        /\ syncStates' = MarkAppModified(syncStates, itemId, g, clock)
        /\ UNCHANGED <<items, subscriptions, remote, nextItem, nextEvent, clock, strict, procs>>

\* Any caller records a remote change for any pair of ids and any timestamp
CallMarkGoogleModified ==
    \E itemId \in ItemIds, g \in EventIds, googleLastModified \in 0..MaxClock :
        /\ syncStates' = MarkGoogleModified(syncStates, itemId, g, googleLastModified, clock)
        /\ UNCHANGED <<items, subscriptions, remote, nextItem, nextEvent, clock, strict, procs>>

NextLedger ==
    \/ CallMarkAppModified
    \/ CallMarkGoogleModified
    \/ Tick

LedgerSpec == Init /\ [][NextLedger]_vars

\* ------------------------------------------- the registry and the endpoint
Tokens == {"", "challenge"}

\* The provider verifies the endpoint
WebhookVerify ==
    \E token \in Tokens : \E S \in {WebhookGet(Store(AllUp), token)} : Commit(S)

\* A user subscribes; the provider names the watched resource
Subscribe ==
    \E env \in Envs, userId \in Users, resourceId \in ResourceIds :
        \E S \in {SubscriptionsPost(Store(env), userId, resourceId)} : Commit(S)

\* A user unsubscribes
Unsubscribe ==
    \E env \in Envs, userId \in Users :
        \E S \in {SubscriptionsDelete(Store(env), userId)} : Commit(S)

NextRegistry ==
    \/ WebhookVerify
    \/ Subscribe
    \/ Unsubscribe
    \/ UserCreateEvent
    \/ Tick

RegistrySpec == Init /\ [][NextRegistry]_vars

\* --------------------------------------- two remote-to-local paths at once
\* Two handlers (webhook processing, full sync step 2) work on a listed
\* event at the same time; a step is what a handler does between two
\* awaits of the database or the item-service.
Step(p, pc, found) == [procs EXCEPT ![p].pc = pc, ![p].found = found]

\* The handler's first look: nothing by googleCalendarId, nothing by title
\* and time, and (webhook) shouldProcessWebhook says yes
CreateObserve(p) ==
    /\ procs[p].pc = "idle"
    /\ \E kind \in {"webhook", "full"}, g \in DOMAIN remote :
        /\ kind = "webhook" => ShouldProcessWebhook(syncStates, g, remote[g].updated)
        /\ FindByGoogleId(items, g) = NoId
        /\ FindByTitleAndTime(Store(AllUp), SummaryOrUntitled(remote[g].summary),
                              remote[g].start) = NoId
        /\ procs' = [procs EXCEPT ![p] = [Idle EXCEPT !.kind = kind, !.pc = "recheck",
                                                      !.g = g]]
    /\ UNCHANGED <<items, syncStates, subscriptions, remote, nextItem, nextEvent,
                   clock, strict>>

\* The checks before the create: duplicateCheck and duplicateByTitleAndTime
\* of the webhook, finalDuplicateCheck of the full sync; a hit is updated
\* and recorded instead
CreateRecheck(p) ==
    /\ procs[p].pc = "recheck"
    /\ procs[p].g \in DOMAIN remote
    /\ \E S \in {Store(AllUp)}, g \in {procs[p].g} :
       \E byId \in {FindByGoogleId(items, g)},
          byTitle \in {FindByTitleAndTime(S, SummaryOrUntitled(remote[g].summary),
                                          remote[g].start)} :
          IF procs[p].kind = "full"
          THEN IF byId = NoId
               THEN procs' = Step(p, "create", NoId)
                    /\ UNCHANGED <<items, syncStates, subscriptions, remote, nextItem,
                                   nextEvent, clock, strict>>
               ELSE \E S1 \in {UpdateItemFromCalendar(S, byId, remote[g])} :
                        /\ Write(SetSync(S1, MarkGoogleModified(S1.sync, byId, g,
                                                 remote[g].updated, S1.now)))
                        /\ procs' = Step(p, "done", byId)
          ELSE IF byId = NoId /\ byTitle = NoId
               THEN procs' = Step(p, "upsert", NoId)
                    /\ UNCHANGED <<items, syncStates, subscriptions, remote, nextItem,
                                   nextEvent, clock, strict>>
               ELSE \E id \in {IF byId # NoId THEN byId ELSE byTitle} :
                    \E S1 \in {WriteItemFromEvent(LinkItem(S, id, g), id, g,
                                                  remote[g].summary)} :
                        /\ Write(SetSync(S1, MarkGoogleModified(S1.sync, id, g,
                                                 remote[g].updated, S1.now)))
                        /\ procs' = Step(p, "done", id)

\* Item.findOneAndUpdate({googleCalendarId, userId}, {$setOnInsert}, {upsert:
\* true}) of the webhook, its query: no index makes the query and the insert
\* one step, so the insert is a step of its own
CreateUpsert(p) ==
    /\ procs[p].pc = "upsert"
    /\ procs[p].g \in DOMAIN remote
    /\ \E S \in {Store(AllUp)}, g \in {procs[p].g} :
       \E byId \in {FindByGoogleId(items, g)} :
          IF byId = NoId
          THEN procs' = Step(p, "insert", NoId)
               /\ UNCHANGED <<items, syncStates, subscriptions, remote, nextItem,
                              nextEvent, clock, strict>>
          ELSE /\ Write(SetSync(S, MarkGoogleModified(S.sync, byId, g,
                                       remote[g].updated, S.now)))
               /\ procs' = Step(p, "done", byId)

\* The insert of the upsert, then markGoogleModified
CreateInsert(p) ==
    /\ procs[p].pc = "insert"
    /\ procs[p].g \in DOMAIN remote
    /\ \E S \in {Store(AllUp)}, g \in {procs[p].g} :
       \E S1 \in {InsertItem(S, S.nextItem,
                             [NoData EXCEPT !.title = SummaryOrUntitled(remote[g].summary),
                                            !.startDate = remote[g].start,
                                            !.endDate = remote[g].end,
                                            !.googleCalendarId = g], "event")} :
          /\ Write(SetSync(S1, MarkGoogleModified(S1.sync, S.nextItem, g,
                                   remote[g].updated, S1.now)))
          /\ procs' = Step(p, "done", S.nextItem)

\* createItemFromCalendar of the full sync with what follows it
CreatePost(p) ==
    /\ procs[p].pc = "create"
    /\ procs[p].g \in DOMAIN remote
    /\ \E S \in {CreateFromCalendar(Store(AllUp), procs[p].g, remote[procs[p].g])} :
          /\ Write(S)
          /\ procs' = Step(p, "done", S.ret)

NextCreateRace ==
    \/ RemoteCreate
    \/ \E p \in Procs : CreateObserve(p)
    \/ \E p \in Procs : CreateRecheck(p)
    \/ \E p \in Procs : CreateUpsert(p)
    \/ \E p \in Procs : CreateInsert(p)
    \/ \E p \in Procs : CreatePost(p)

CreateRaceSpec == Init /\ [][NextCreateRace]_vars

\* ------------------------------------------------- two ledger writes at once
\* markAppModified and markGoogleModified await the database three and four
\* times; a step is one of these awaits.  A document is told apart by its
\* googleCalendarId, which no update changes.
LedgerCall(p) ==
    /\ procs[p].pc = "idle"
    /\ \E kind \in {"app", "google"}, itemId \in ItemIds, g \in EventIds :
           procs' = [procs EXCEPT ![p] = [Idle EXCEPT !.kind = kind, !.itemId = itemId,
                                                      !.g = g,
                                                      !.pc = IF kind = "google"
                                                             THEN "existing"
                                                             ELSE "conflict"]]
    /\ UNCHANGED <<items, syncStates, subscriptions, remote, nextItem, nextEvent,
                   clock, strict>>

\* SyncState.findOne({googleCalendarId}) of markGoogleModified, and
\* SyncState.findOne({itemId, googleCalendarId: {$ne}}) of both
LedgerFind(p) ==
    /\ procs[p].pc \in {"existing", "conflict"}
    /\ \E existing \in {ByGoogleId(syncStates, procs[p].g)},
          conflicts \in {{r \in syncStates : r.itemId = procs[p].itemId
                                             /\ r.googleCalendarId # procs[p].g}} :
           procs' = IF procs[p].pc = "existing"
                    THEN [procs EXCEPT ![p].pc = "conflict",
                                       ![p].lastApp = IF existing = {} THEN NoTime
                                                      ELSE FirstDoc(existing).lastAppModified]
                    ELSE IF conflicts = {}
                    THEN Step(p, "upsert", NoId)
                    ELSE Step(p, "delete", FirstDoc(conflicts).googleCalendarId)
    /\ UNCHANGED <<items, syncStates, subscriptions, remote, nextItem, nextEvent,
                   clock, strict>>

\* SyncState.deleteOne({_id: conflictingState._id})
LedgerDelete(p) ==
    /\ procs[p].pc = "delete"
    /\ syncStates' = {r \in syncStates : r.googleCalendarId # procs[p].found}
    /\ procs' = Step(p, "upsert", procs[p].found)
    /\ UNCHANGED <<items, subscriptions, remote, nextItem, nextEvent, clock, strict>>

\* What a ledger write sets: lastAppModified and the flag by markAppModified,
\* lastGoogleModified, existingState?.lastAppModified || new Date() and the
\* cleared flag by markGoogleModified (called with the clock as timestamp)
LedgerSet(proc, old, now) ==
    IF proc.kind = "app"
    THEN [itemId |-> proc.itemId, googleCalendarId |-> proc.g,
          lastGoogleModified |-> old.lastGoogleModified,
          lastAppModified |-> now, syncing |-> TRUE]
    ELSE [itemId |-> proc.itemId, googleCalendarId |-> proc.g,
          lastGoogleModified |-> now,
          lastAppModified |-> IF proc.lastApp = NoTime THEN now ELSE proc.lastApp,
          syncing |-> FALSE]

\* SyncState.findOneAndUpdate({googleCalendarId}, {$set}, {upsert: true}): a
\* result that breaks a unique index is a duplicate key error, rethrown
LedgerUpsert(p) ==
    /\ procs[p].pc = "upsert"
    /\ \E blank \in {[lastGoogleModified |-> NoTime]} :
       \E result \in {UpsertByGoogleId(syncStates, procs[p].g,
                          [old \in syncStates |-> LedgerSet(procs[p], old, clock)],
                          LedgerSet(procs[p], blank, clock))} :
           IF SyncStateSchema(result)
           THEN syncStates' = result /\ procs' = Step(p, "done", procs[p].found)
           ELSE syncStates' = syncStates
                /\ procs' = [procs EXCEPT ![p].pc = "done", ![p].failed = TRUE]
    /\ UNCHANGED <<items, subscriptions, remote, nextItem, nextEvent, clock, strict>>

NextLedgerRace ==
    \/ CallMarkAppModified
    \/ \E p \in Procs : LedgerCall(p)
    \/ \E p \in Procs : LedgerFind(p)
    \/ \E p \in Procs : LedgerDelete(p)
    \/ \E p \in Procs : LedgerUpsert(p)
    \/ Tick

LedgerRaceSpec == Init /\ [][NextLedgerRace]_vars

\* ------------------------------------------------------ the resolver alone
\* Any calendar of timed events, with and without summary, with and
\* without reminder prefix
InitResolver ==
    /\ \E n \in 0..MaxEvents :
           /\ remote \in [1..n -> {[summary |-> Title(b, name), start |-> t, end |-> t + 1,
                                    allDay |-> FALSE, updated |-> 0] :
                                       b \in 0..MaxBells, name \in Names \cup {""},
                                       t \in Times}]
           /\ nextEvent = n + 1
    /\ items = <<>>
    /\ syncStates = {}
    /\ subscriptions = {}
    /\ nextItem = 1
    /\ clock = 0
    /\ strict = FALSE
    /\ procs = [p \in Procs |-> Idle]

\* A caller posts /sync/calendar/create
SyncCreateCall ==
    \E env \in Envs, itemId \in ItemIds, b \in 0..MaxBells, n \in Names, t \in Times :
        \E S \in {SyncCalendarCreate(Store(env), itemId, Title(b, n), t, t + 1)} :
            Commit(S)

ResolverSpec == InitResolver /\ [][SyncCreateCall]_vars

\* ------------------------------------------------------------ outages
\* Requests during which the ledger's database does not answer, and
\* requests during which it does
OutageEnvs ==
    {e \in [cred : {TRUE}, provider : {TRUE}, serviceToken : {TRUE}, ledger : BOOLEAN,
            omitUndefined : {TRUE}, lookup : {TRUE}] : TRUE}

\* The whole of event time
Whole == <<-1, MaxT + 4>>

ItemTypes == {"event", "reminder"}

DataOf(type, n, t) == IF type = "event" THEN EventData(n, t) ELSE ReminderData(n, t)

OutageCreate ==
    \E env \in OutageEnvs, type \in ItemTypes, n \in Names, t \in Times :
        \E S \in {ItemsPost(Store(env), DataOf(type, n, t), type)} : Commit(S)

OutageEdit ==
    \E env \in OutageEnvs, id \in DOMAIN items, t \in Times :
        \E S \in {ItemsPatch(Store(env), id, MoveData(items[id], t))} : Commit(S)

OutageDelete ==
    \E env \in OutageEnvs, id \in DOMAIN items :
        \E S \in {ItemsDelete(Store(env), id)} : Commit(S)

OutageWebhook ==
    \E env \in OutageEnvs, w \in {Whole} :
        \E S \in {WebhookPost(Store(env), "known", w[1], w[2])} : Commit(S)

OutageFullSync ==
    \E env \in OutageEnvs, w \in {Whole} :
        \E S \in {SyncFull(Store(env), w[1], w[2])} : Commit(S)

NextOutage ==
    \/ OutageCreate
    \/ OutageEdit
    \/ OutageDelete
    \/ RemoteCreate
    \/ OutageWebhook
    \/ OutageFullSync

OutageSpec == Init /\ [][NextOutage]_vars

\* ------------------------------------------------- events without times
\* The user turns an event of the provider's calendar into an all-day
\* event: it keeps its day and carries start.date, not start.dateTime
RemoteAllDay ==
    \E g \in DOMAIN remote :
        /\ ~remote[g].allDay
        /\ \E S \in {[Store(AllUp) EXCEPT !.remote[g].allDay = TRUE,
                                          !.remote[g].updated = clock]} : Commit(S)

\* A notification processed by either build
AllDayWebhook ==
    \E omit \in BOOLEAN, w \in Windows :
        \E S \in {WebhookPost(Store([AllUp EXCEPT !.omitUndefined = omit]), "known",
                              w[1], w[2])} : Commit(S)

NextPayload ==
    \/ UserCreateEvent
    \/ RemoteCreate
    \/ RemoteAllDay
    \/ AllDayWebhook
    \/ FullSync
    \/ Tick

PayloadSpec == Init /\ [][NextPayload]_vars

\* ------------------------------------------ the notification's resource id
\* A request during which the lookup of shouldProcessWebhook fails
LookupDown == [AllUp EXCEPT !.lookup = FALSE]

NoResource == ""

ResourceIdOf_bodyFirst(header, body) == IF body # NoResource THEN body ELSE header

\* resourceIdFromHeader || resourceIdFromBody: the header X-Goog-Resource-Id
\* unless it is missing or empty
ResourceIdOf(header, body) == IF header # NoResource THEN header ELSE body

\* router.post('/google/calendar') from the request's header and body: the
\* resource id, then the registry lookup
GoogleCalendarNotification(S, header, body, timeMin, timeMax) ==
    Then([resourceId \in {ResourceIdOf(header, body)} |->
        WebhookPost(S, IF resourceId = NoResource THEN "none"
                       ELSE IF GetUserIdFromResourceId(S.subs, resourceId) = NoUser
                            THEN "unknown"
                       ELSE "known",
                    timeMin, timeMax)])

\* The provider posts a notification with any resource id in its header
\* and any in its body; the items and the calendar are those of user u1
Notification ==
    \E env \in WebhookEnvs \cup {LookupDown}, header \in ResourceIds \cup {NoResource},
       body \in ResourceIds \cup {NoResource} :
        /\ GetUserIdFromResourceId(subscriptions, ResourceIdOf(header, body)) \in {NoUser, "u1"}
        /\ \E S \in {GoogleCalendarNotification(Store(env), header, body, Whole[1], Whole[2])} :
               Commit(S)

NextNotify == Subscribe \/ RemoteCreate \/ RemoteMove \/ Notification

NotifySpec == Init /\ [][NextNotify]_vars

\* ------------------------------------------------------------- properties
Stamps == NoTime..(MaxClock + 1)

\* C2: for every googleCalendarId and every timestamp, shouldProcessWebhook
\* returns true when the ledger has no record of that googleCalendarId, and
\* when the timestamp is strictly greater than the record's lastAppModified.
C2_Progress ==
    \A g \in EventIds, t \in Stamps :
        (\/ ~ \E r \in syncStates : r.googleCalendarId = g
         \/ \E r \in syncStates : r.googleCalendarId = g /\ t > r.lastAppModified)
        => ShouldProcessWebhook(syncStates, g, t)

\* A record whose lastAppModified is older than a timestamp asked about,
\* next to a googleCalendarId without record
C2_Witness ==
    \E g, h \in EventIds :
        /\ \E r \in syncStates : r.googleCalendarId = g /\ r.lastAppModified < clock
        /\ ShouldProcessWebhook(syncStates, g, clock)
        /\ ByGoogleId(syncStates, h) = {}
        /\ ShouldProcessWebhook(syncStates, h, NoTime)

\* C3: after any sequence of markAppModified and markGoogleModified calls
\* with arbitrary (itemId, googleCalendarId), no two records share a
\* googleCalendarId and no two share an itemId.
C3_MappingUnique == SyncStateSchema(syncStates)

\* Two records, and a call that maps the item of one to the googleCalendarId
\* of the other: the stale record goes, the other is re-pointed
C3_Witness ==
    \E r, q \in syncStates :
        /\ r.itemId # q.itemId
        /\ r.googleCalendarId # q.googleCalendarId
        /\ Cardinality(MarkAppModified(syncStates, r.itemId, q.googleCalendarId, clock)) = 1
        /\ Cardinality(MarkGoogleModified(syncStates, r.itemId, q.googleCalendarId,
                                          clock, clock)) = 1

\* What a notification does in the current state
Notified(q) == WebhookPost(Store(q.env), q.rid, q.timeMin, q.timeMax)

\* C1: when the ledger holds a record for a listed event whose
\* lastAppModified is not older than the event's updated timestamp, as after
\* a local push, shouldProcessWebhook returns false and the notification
\* neither updates nor creates a local item from that event.
C1_LoopSuppression ==
    \A q \in WebhookRequests :
        LET S == Notified(q)
        IN  \A c \in S.log :
                (c.kind = "check" /\ c.had /\ c.updated <= c.lastApp)
                => /\ ~c.process
                   /\ \A a \in S.log : a.kind \in {"apply", "create"} => a.g # c.g

\* A notification after a local push: the record was last written by
\* markAppModified at the time the provider stamped the event
C1_Witness ==
    \E q \in WebhookRequests, r \in syncStates :
        /\ r.syncing
        /\ r.googleCalendarId \in DOMAIN remote
        /\ remote[r.googleCalendarId].updated = r.lastAppModified
        /\ r.itemId \in DOMAIN items
        /\ \E c \in Notified(q).log :
               c.kind = "check" /\ c.g = r.googleCalendarId /\ ~c.process
        /\ Notified(q).items = items

\* C4: a notification never makes the service write to the provider, so
\* the notification that answers an app-originated push causes no further
\* notification, however often it is delivered.
C4_NoInfiniteLoop ==
    \A q \in WebhookRequests :
        LET S == Notified(q)
        IN  S.provWrites = 0 /\ S.remote = remote /\ S.nextEvent = nextEvent

\* The notification that answers a push is processed: the pushed event is
\* listed and checked against its record
C4_Witness ==
    \E q \in WebhookRequests, r \in syncStates :
        /\ r.syncing
        /\ r.lastAppModified = clock
        /\ \E c \in Notified(q).log : c.kind = "check" /\ c.g = r.googleCalendarId
        /\ \E a \in Notified(q).log : a.kind = "apply"

\* C10: every notification is answered 200 before the handler does any
\* work (registry lookup, credential request, provider call, database
\* access), and a failure of that work neither changes the answer nor
\* leaves the handler as an error.
C10_AckFirst ==
    \A q \in WebhookRequests :
        LET S == Notified(q)
        IN  S.status = 200 /\ S.ackAfter = 0 /\ ~S.err

\* A notification whose processing fails after the registry lookup and the
\* credential request, and one whose processing writes to the database
C10_Witness ==
    /\ \E q \in WebhookRequests :
           LET S == WebhookProcess(Respond(Store(q.env), 200), q.rid, q.timeMin, q.timeMax)
           IN  S.err /\ S.work = 3
    /\ \E q \in WebhookRequests : Notified(q).items # items

\* What a full sync of the window w does in the current state
Synced(env, w) == SyncFull(Store(env), w[1], w[2])

LinkedTo(S, g) == {i \in DOMAIN S.items : S.items[i].googleCalendarId = g}

\* C5: when a full sync of a window completes, every remote event with
\* start and end in the window has exactly one linked local item, with the
\* event's title, start and end, and every local event in the window
\* carries the googleCalendarId of an existing remote event.
C5_Convergence ==
    \A w \in Windows :
        LET S == Synced(AllUp, w)
        IN  S.status = 200 =>
            /\ \A g \in DOMAIN S.remote :
                   (S.remote[g].start >= w[1] /\ S.remote[g].end <= w[2])
                   => /\ Cardinality(LinkedTo(S, g)) = 1
                      /\ \A i \in LinkedTo(S, g) :
                             /\ S.items[i].title = S.remote[g].summary
                             /\ S.items[i].startDate = S.remote[g].start
                             /\ S.items[i].endDate = S.remote[g].end
            /\ \A i \in DOMAIN S.items :
                   (S.items[i].type = "event"
                    /\ Between(S.items[i].startDate, w[1], w[2]))
                   => S.items[i].googleCalendarId \in DOMAIN S.remote

\* C6: a second full sync of the same window, right after a first one that
\* completed, creates and updates nothing in either direction.
C6_FullSyncIdempotent ==
    \A w \in Windows :
        LET S1 == Synced(AllUp, w)
            S2 == SyncFull(After(S1, AllUp), w[1], w[2])
        IN  S1.status = 200 =>
            /\ S2.status = 200
            /\ S2.stats.created = 0
            /\ S2.stats.updated = 0
            /\ S2.stats.pushCreated = 0
            /\ S2.stats.pushUpdated = 0

\* C7: at most one local item carries a given googleCalendarId.
C7_NoDuplicateLinks ==
    \A i, j \in DOMAIN items :
        (i # j /\ items[i].googleCalendarId # NoId)
        => items[i].googleCalendarId # items[j].googleCalendarId

\* The remote-to-local writes of a request to an item that has a record
Overwrites(S, id) == {a \in S.log : a.kind = "apply" /\ a.item = id /\ a.had}

\* C8: when the user edits an item (the push of the edit may fail) and a
\* notification or a full sync follows, every overwrite of that item with
\* a remote event's fields uses an event modified strictly after the edit.
C8_LastWriterWins ==
    \A id \in DOMAIN items, t \in Times, env \in Envs :
        LET E == ItemsPatch(Later(Store(env)), id, MoveData(items[id], t))
        IN  /\ \A q \in WebhookRequests :
                   \A a \in Overwrites(WebhookPost(After(E, q.env), q.rid,
                                                   q.timeMin, q.timeMax), id) :
                       a.updated > E.now
            /\ \A w \in Windows :
                   \A a \in Overwrites(SyncFull(After(E, AllUp), w[1], w[2]), id) :
                       a.updated > E.now

\* The linked events and reminders of the window [lo, hi]
SweptItems(S, lo, hi) ==
    {i \in DOMAIN S.items :
        /\ S.items[i].googleCalendarId # NoId
        /\ \/ S.items[i].type = "event" /\ Between(S.items[i].startDate, lo, hi)
           \/ S.items[i].type = "reminder" /\ Between(S.items[i].reminderTime, lo, hi)}

\* The sweep of [lo, hi] took the store from S1 to S2: every linked item of
\* the window whose event was not listed is gone, and so is its record
Swept(S1, S2, lo, hi) ==
    \A i \in SweptItems(S1, lo, hi) :
        S1.items[i].googleCalendarId \notin ListEvents(remote, lo, hi)
        => /\ i \notin DOMAIN S2.items
           /\ \A r \in S2.sync : r.itemId # i

\* C9: in the processing of a notification and in a full sync, the sweep
\* deletes every linked event or reminder of the swept window whose
\* googleCalendarId is not in the remote listing, and leaves no record with
\* its itemId.
C9_DeletionPropagation ==
    /\ \A w \in Windows :
           LET S1 == WebhookUpserts(Store(AllUp), w[1], w[2])
           IN  Swept(S1, WebhookSweep(S1, w[1], w[2], ListEvents(remote, w[1], w[2])),
                     w[1], w[2])
    /\ \A w \in Windows :
           LET S1 == FullUpserts(Store(AllUp), w[1], w[2])
           IN  Swept(S1, FullSweep(S1, w[1], w[2], ListEvents(remote, w[1], w[2])),
                     w[1], w[2])

\* C11: a GET on the webhook endpoint answers 200 with the challenge token
\* echoed when a token is present and 400 otherwise, and in both cases
\* leaves the ledger, the subscription registry, the local items and the
\* provider unchanged.
C11_Verification ==
    \A token \in Tokens :
        \A S \in {WebhookGet(Store(AllUp), token)} :
            /\ token # "" => S.status = 200 /\ S.body = token
            /\ token = "" => S.status = 400
            /\ S.sync = syncStates
            /\ S.subs = subscriptions
            /\ S.items = items
            /\ S.remote = remote /\ S.provWrites = 0

\* A verification request with and without token, when the ledger, the
\* registry, the items and the calendar all hold something
C11_Witness ==
    /\ syncStates # {} /\ subscriptions # {} /\ items # <<>> /\ remote # <<>>
    /\ WebhookGet(Store(AllUp), "challenge").body = "challenge"
    /\ WebhookGet(Store(AllUp), "").status = 400

\* C12: when two concurrent paths (webhook with webhook, webhook with full
\* sync, full sync with full sync) that both saw a remote event without
\* local counterpart have finished, at most one local item carries that
\* event's googleCalendarId.
C12_NoDuplicateCreate ==
    \A g \in DOMAIN remote :
        (\A p \in Procs : procs[p].pc = "done" /\ procs[p].g = g)
        => Cardinality(LinkedTo(Store(AllUp), g)) <= 1

\* C13: when two concurrent ledger writes that bind one itemId to two
\* googleCalendarIds, or one googleCalendarId to two itemIds, have both
\* finished, no two records share an itemId or a googleCalendarId and
\* neither write has failed with an error.
C13_StaleMappingRace ==
    (/\ \A p \in Procs : procs[p].pc = "done"
     /\ \/ procs[1].itemId = procs[2].itemId /\ procs[1].g # procs[2].g
        \/ procs[1].g = procs[2].g /\ procs[1].itemId # procs[2].itemId)
    => /\ SyncStateSchema(syncStates)
       /\ \A p \in Procs : ~procs[p].failed

\* C14: when POST /sync/calendar/create is called for a local item, the
\* resolver finds no matching remote event and the call succeeds, exactly
\* one remote event is created, its id is returned, and the ledger then
\* holds exactly one record keyed by that id, mapping it to the itemId.
C14_SyncCreateNoMatch ==
    \A env \in Envs, itemId \in ItemIds, n \in Names, t \in Times :
        \A S \in {SyncCalendarCreate(Store(env), itemId, Title(0, n), t, t + 1)} :
            (FindCalendarEventByTitleAndTime(Store(env), Title(0, n), t) = NoId /\ ~S.err)
            => /\ S.ret \notin DOMAIN remote
               /\ DOMAIN S.remote = DOMAIN remote \cup {S.ret}
               /\ \A g \in DOMAIN remote : S.remote[g] = remote[g]
               /\ S.remote[S.ret].summary = Title(0, n)
               /\ S.provWrites = 1
               /\ Cardinality(ByGoogleId(S.sync, S.ret)) = 1
               /\ \A r \in ByGoogleId(S.sync, S.ret) : r.itemId = itemId

\* A sync create without match for an item whose record maps it to another
\* event, next to a remote event of the same title at another time
C14_Witness ==
    \E itemId \in DOMAIN items, t \in Times :
        \E S \in {SyncCalendarCreate(Store(AllUp), itemId, items[itemId].title, t, t + 1)} :
            /\ FindCalendarEventByTitleAndTime(Store(AllUp), items[itemId].title, t) = NoId
            /\ \E g \in DOMAIN remote : remote[g].summary = items[itemId].title
            /\ \E r \in syncStates : r.itemId = itemId
            /\ ~S.err /\ S.ret = nextEvent
            /\ \E r \in S.sync : r.itemId = itemId /\ r.googleCalendarId = nextEvent

\* The remote events with the title and a start within five minutes
SameTitleNear(title, startDate) ==
    {g \in DOMAIN remote : remote[g].summary = title
                           /\ Abs(remote[g].start - startDate) <= FiveMin}

\* The item is linked to one of the events gs, which is linked to it alone
\* and recorded once, and the calendar has no new event
LinkedOnce(S, id, gs) ==
    /\ ~S.err
    /\ DOMAIN S.remote = DOMAIN remote
    /\ S.items[id].googleCalendarId \in gs
    /\ \A g \in {S.items[id].googleCalendarId} :
           /\ Cardinality(ByGoogleId(S.sync, g)) = 1
           /\ \A r \in ByGoogleId(S.sync, g) : r.itemId = id
           /\ LinkedTo(S, g) = {id}

\* C15: when a remote event with the same title and a start within 5
\* minutes of the local event's start exists, sync create, and the
\* local-to-remote step of the full sync for an unlinked item, link the item
\* to such an event, create no remote event, and leave exactly one record
\* and one local item for the pair.
C15_DuplicateResolution ==
    \A id \in DOMAIN items :
        \A gs \in {SameTitleNear(items[id].title, items[id].startDate)} :
            (items[id].type = "event" /\ gs # {})
            => /\ \A S \in {SyncCalendarCreate(Store(AllUp), id, items[id].title,
                                   items[id].startDate, items[id].endDate)} :
                      S.ret = S.items[id].googleCalendarId /\ LinkedOnce(S, id, gs)
               /\ items[id].googleCalendarId = NoId
                  => LinkedOnce(FullItem(Store(AllUp), remote, id, items[id]), id, gs)

\* The events the resolver may return for a title and a start: inside the
\* 30-minute window, the title itself or the title behind the reminder
\* prefix, the start within five minutes
Candidates(title, startDate) ==
    {g \in DOMAIN remote :
        /\ remote[g].end > startDate - ThirtyMin /\ remote[g].start < startDate + ThirtyMin
        /\ remote[g].summary = title \/ remote[g].summary = WithBell(title)
        /\ Abs(remote[g].start - startDate) <= FiveMin}

PushedNew(S0, S) ==
    {i \in DOMAIN S0.items \cap DOMAIN S.items :
        /\ S0.items[i].type = "reminder" /\ S0.items[i].reminderTime # NoTime
        /\ S0.items[i].googleCalendarId = NoId
        /\ S.items[i].googleCalendarId \in DOMAIN S.remote \ DOMAIN S0.remote}

\* The event of item i spans [T, T + 15 min] for the item's reminderTime T
\* and is titled prefix + title
Projected(S, i) ==
    LET ev == S.remote[S.items[i].googleCalendarId]
    IN  /\ ev.start = S.items[i].reminderTime
        /\ ev.end = S.items[i].reminderTime + FifteenMin
        /\ ev.summary = WithBell(S.items[i].title)

\* Item creation projects the reminder it pushes
C17_ByCreation ==
    \A n \in Names, t \in Times, s \in ReminderStarts :
        \A S \in {ItemsPost(Store(AllUp), [ReminderData(n, t) EXCEPT !.startDate = s],
                            "reminder")} :
            (/\ S.ret \in DOMAIN S.items
             /\ S.items[S.ret].googleCalendarId \in DOMAIN S.remote \ DOMAIN remote)
            => Projected(S, S.ret)

\* Item update projects the reminder it pushes
C17_ByUpdate ==
    \A id \in DOMAIN items, t \in Times :
        \A S \in {ItemsPatch(Store(AllUp), id, MoveData(items[id], t))} :
            (items[id].type = "reminder" /\ S.provWrites > 0)
            => /\ S.items[id].reminderTime = t
               /\ Projected(S, id)

\* Full sync projects the reminders it pushes
C17_ByFullSync ==
    \A w \in Windows :
        \A S \in {SyncFull(Store(AllUp), w[1], w[2])} :
            \A i \in PushedNew(Store(AllUp), S) : Projected(S, i)

\* C17: every reminder with reminderTime = T that item creation, item
\* update or full sync pushes to the calendar produces a remote event
\* spanning exactly [T, T + 15 min] whose title is the reminder prefix
\* followed by the item's title.
C17_ReminderProjection == C17_ByCreation /\ C17_ByUpdate /\ C17_ByFullSync

\* A push fails for want of the credential, of the provider or of the ledger
PushFailures ==
    {e \in [cred : BOOLEAN, provider : BOOLEAN, serviceToken : {TRUE}, ledger : BOOLEAN,
            omitUndefined : {TRUE}, lookup : {TRUE}] :
        Cardinality({f \in {"cred", "provider", "ledger"} : ~e[f]}) = 1}

\* C18: for every local create, update or delete of an event or a reminder,
\* a push that fails for want of the credential, of the provider or of the
\* ledger never fails the mutation: the item store creates, changes or
\* removes the item and answers success.
C18_BestEffortPush ==
    \A env \in PushFailures :
        /\ \A type \in ItemTypes, n \in Names, t \in Times :
               \A S \in {ItemsPost(Store(env), DataOf(type, n, t), type)} :
                   /\ ~S.err /\ S.ret = nextItem
                   /\ DOMAIN S.items = DOMAIN items \cup {S.ret}
                   /\ S.items[S.ret].type = type
                   /\ S.items[S.ret].title = Title(0, n)
                   /\ S.items[S.ret].startDate = DataOf(type, n, t).startDate
                   /\ S.items[S.ret].reminderTime = DataOf(type, n, t).reminderTime
        /\ \A id \in DOMAIN items, t \in Times :
               \A S \in {ItemsPatch(Store(env), id, MoveData(items[id], t))} :
                   /\ ~S.err
                   /\ S.items[id].type = "event" => S.items[id].startDate = t
                   /\ S.items[id].type = "reminder" => S.items[id].reminderTime = t
        /\ \A id \in DOMAIN items :
               \A S \in {ItemsDelete(Store(env), id)} :
                   ~S.err /\ DOMAIN S.items = DOMAIN items \ {id}

\* A reminder was created while the ledger was out (its block is in the
\* calendar, the item carries no googleCalendarId), and the push of a change
\* of a linked event fails in each of the three ways, the push of its
\* deletion in two
C18_Witness ==
    \E i, j \in DOMAIN items :
        /\ items[i].type = "event" /\ items[i].googleCalendarId \in DOMAIN remote
        /\ items[j].type = "reminder" /\ items[j].googleCalendarId = NoId
        /\ \E g \in DOMAIN remote :
               /\ remote[g].summary = WithBell(items[j].title)
               /\ remote[g].start = items[j].reminderTime
               /\ ByGoogleId(syncStates, g) = {}
        /\ \A env \in PushFailures :
               /\ SyncCalendarUpdate(Store(env), i, items[i].googleCalendarId,
                                     NoTitle, 0, 1).err
               /\ env.ledger => SyncCalendarDelete(Store(env), items[i].googleCalendarId).err

\* A request during which only the ledger's database does not answer
LedgerDown == [AllUp EXCEPT !.ledger = FALSE]

\* A ledger write failed during the request that left S
LedgerWriteFailed(S) == [kind |-> "ledger"] \in S.log

\* /sync/calendar/create answers an error when its ledger write fails
C19_Create ==
    \A itemId \in ItemIds, type \in ItemTypes, n \in Names, t \in Times :
        \A S \in {SyncCalendarCreate(Store(LedgerDown), itemId,
                                     IF type = "event" THEN Title(0, n) ELSE Title(1, n),
                                     t, t + 1)} :
            LedgerWriteFailed(S) => S.err

\* /sync/calendar/update answers an error when its ledger write fails
C19_Update ==
    \A id \in DOMAIN items, t \in Times :
        \A S \in {SyncCalendarUpdate(Store(LedgerDown), id, items[id].googleCalendarId,
                                     NoTitle, t, t + 1)} :
            LedgerWriteFailed(S) => S.err

\* /sync/full answers an error when a ledger write fails
C19_Full ==
    \A w \in Windows :
        \A S \in {SyncFull(Store(LedgerDown), w[1], w[2])} :
            LedgerWriteFailed(S) => S.err /\ S.status = 500

\* The webhook has answered 200 and swallows the failure
C19_Webhook ==
    \A w \in Windows :
        \A S \in {WebhookPost(Store(LedgerDown), "known", w[1], w[2])} :
            LedgerWriteFailed(S) => ~S.err /\ S.status = 200

\* C19: whenever a ledger write (markAppModified or markGoogleModified)
\* fails during a sync-control call (create, update, full), the call answers
\* the caller with an error instead of a success response; on the webhook
\* path the failure is logged and swallowed.
C19_LedgerWriteFailure == C19_Create /\ C19_Update /\ C19_Full /\ C19_Webhook

\* C20: after any sequence of subscribe and unsubscribe calls by any users
\* the registry holds at most one subscription per user, and every
\* resourceId in it resolves (getUserIdFromResourceId) to exactly one userId.
C20_SubscriptionUniqueness ==
    /\ \A u \in Users : Cardinality({a \in subscriptions : a.userId = u}) <= 1
    /\ \A a \in subscriptions :
           /\ {b.userId : b \in {c \in subscriptions : c.resourceId = a.resourceId}}
                  = {a.userId}
           /\ GetUserIdFromResourceId(subscriptions, a.resourceId) = a.userId

\* Both users are subscribed, one of them on a later channel than the
\* other; a user who asks for the other's resource is refused, and so is a
\* user without a subscription who unsubscribes once more
C20_Witness ==
    /\ \E a, b \in subscriptions :
           /\ a.userId = "u1" /\ b.userId = "u2" /\ a.channelId < b.channelId
           /\ SubscriptionsPost(Store(AllUp), "u1", b.resourceId).err
           /\ SubscriptionsPost(Store(AllUp), "u1", b.resourceId).subs = subscriptions
           /\ SubscriptionsDelete(SubscriptionsDelete(Store(AllUp), "u2"), "u2").status = 404

\* The calls of channels.stop that the request made
Stops(S) == {e \in S.log : e.kind = "stop"}

\* C21: DELETE /subscriptions/calendar answers 404 and changes nothing when
\* the user has no subscription; otherwise it calls channels.stop with the
\* stored channelId and resourceId and then deletes the record, and when
\* the stop fails the record stays and an error is returned.
C21_Unsubscribe ==
    \A env \in Envs, u \in Users :
        \A S \in {SubscriptionsDelete(Store(env), u)} :
            \A mine \in {{a \in subscriptions : a.userId = u}} :
                /\ mine = {} =>
                       /\ S.status = 404 /\ S.err
                       /\ S.subs = subscriptions /\ Stops(S) = {}
                /\ (mine # {} /\ env.cred /\ env.provider) =>
                       /\ S.status = 200 /\ ~S.err
                       /\ Stops(S) = {[kind |-> "stop", channelId |-> a.channelId,
                                       resourceId |-> a.resourceId] : a \in mine}
                       /\ S.subs = subscriptions \ mine
                /\ (mine # {} /\ ~(env.cred /\ env.provider)) =>
                       /\ S.err /\ S.status # 200 /\ S.status # 404
                       /\ S.subs = subscriptions
                       /\ Stops(S) = {}

\* One user is subscribed and the other is not: the one without is answered
\* 404, the other's channel is stopped and the record deleted, and with
\* the provider down the record stays
C21_Witness ==
    \E a \in subscriptions :
        /\ \E u \in Users : SubscriptionsDelete(Store(AllUp), u).status = 404
        /\ SubscriptionsDelete(Store(AllUp), a.userId).subs = subscriptions \ {a}
        /\ Stops(SubscriptionsDelete(Store(AllUp), a.userId)) # {}
        /\ SubscriptionsDelete(Store([AllUp EXCEPT !.provider = FALSE]), a.userId).subs
               = subscriptions
        /\ SubscriptionsDelete(Store([AllUp EXCEPT !.provider = FALSE]), a.userId).err

\* The ledger's mapping: which item goes with which event
Mapping(sync) == {<<r.itemId, r.googleCalendarId>> : r \in sync}

\* The store after processing a notification, then (at once or a clock
\* reading later) the same notification again
Redelivered(S1, w, later) ==
    WebhookPost(After(IF later THEN Later(S1) ELSE S1, AllUp), "known", w[1], w[2])

\* C22: processing the same notification twice in a row, with no change on
\* either side in between, leaves the local items and the ledger's mapping
\* as processing it once left them: no second item, no second record, no
\* extra deletion.
C22_DuplicateDelivery ==
    \A w \in Windows :
        \A S1 \in {WebhookPost(Store(AllUp), "known", w[1], w[2])} :
            \A later \in BOOLEAN :
                \A S2 \in {Redelivered(S1, w, later)} :
                    /\ S2.items = S1.items
                    /\ Mapping(S2.sync) = Mapping(S1.sync)

\* What the request that left S did on account of event g: the items it
\* created for g, the items of g it changed or deleted, the records of g
\* it wrote
TouchedFor(S, g) ==
    [created |-> {i \in DOMAIN S.items \ DOMAIN items : S.items[i].googleCalendarId = g},
     changed |-> {i \in DOMAIN items \cap DOMAIN S.items :
                     items[i].googleCalendarId = g /\ S.items[i] # items[i]},
     deleted |-> {i \in DOMAIN items \ DOMAIN S.items : items[i].googleCalendarId = g},
     written |-> ByGoogleId(S.sync, g) # ByGoogleId(syncStates, g)]

Untouched == [created |-> {}, changed |-> {}, deleted |-> {}, written |-> FALSE]

\* Webhook processing does nothing on account of an incomplete event
C23_Webhook ==
    \A g \in DOMAIN remote, w \in Windows, omit \in BOOLEAN :
        \A S \in {WebhookPost(Store([AllUp EXCEPT !.omitUndefined = omit]), "known",
                              w[1], w[2])} :
            (remote[g].allDay /\ g \in ListEvents(remote, w[1], w[2]))
                => TouchedFor(S, g) = Untouched

\* Full sync does nothing on account of an incomplete event
C23_Full ==
    \A g \in DOMAIN remote, w \in Windows :
        \A S \in {SyncFull(Store(AllUp), w[1], w[2])} :
            (remote[g].allDay /\ g \in ListEvents(remote, w[1], w[2]))
                => TouchedFor(S, g) = Untouched

\* C23: a remote event that lacks a start or end date-time causes no local
\* item create, no local item update, no local item deletion and no ledger
\* write, in webhook processing as well as in full sync.
C23_IncompleteSkipped == C23_Webhook /\ C23_Full

\* The items that the remote-to-local phase, which took the stored items
\* to those of S2, linked or created
LinkedOrCreated(S2) ==
    {i \in DOMAIN S2.items :
        /\ i \notin DOMAIN items \/ items[i].googleCalendarId = NoId
        /\ S2.items[i].googleCalendarId # NoId}

\* C24: within one full sync the remote-to-local phase completes before the
\* local-to-remote phase selects its items: no item that the remote-to-local
\* phase of the run linked or created gets a remote event created for it in
\* the local-to-remote phase.
C24_FullSyncOrdering ==
    \A w \in Windows :
        \A S1 \in {FullUpserts(Store(AllUp), w[1], w[2])} :
            \A S2 \in {FullSweep(S1, w[1], w[2],
                                 Timed(remote, ListEvents(remote, w[1], w[2])))} :
                \A S3 \in {SyncFull(Store(AllUp), w[1], w[2])} :
                    (~S1.err /\ ~S3.err) =>
                        \A g \in DOMAIN S3.remote \ DOMAIN S2.remote :
                            /\ \A i \in LinkedOrCreated(S2) \cap DOMAIN S3.items :
                                   S3.items[i].googleCalendarId # g
                            /\ \A r \in S3.sync :
                                   r.googleCalendarId = g => r.itemId \notin LinkedOrCreated(S2)

\* A full sync whose remote-to-local phase creates an item for an event
\* and links a stored item to another, and whose local-to-remote phase
\* creates an event
C24_Witness ==
    \E w \in Windows :
        \E S1 \in {FullUpserts(Store(AllUp), w[1], w[2])} :
            \E S3 \in {SyncFull(Store(AllUp), w[1], w[2])} :
                /\ ~S3.err
                /\ LinkedOrCreated(S1) \ DOMAIN items # {}
                /\ LinkedOrCreated(S1) \cap DOMAIN items # {}
                /\ DOMAIN S3.remote \ DOMAIN S1.remote # {}

\* ---------------------------------------------------------------------
\* C25: the ledger records a local change before the provider call
\* ---------------------------------------------------------------------

\* With recordLocalChange called before the provider call, a request whose
\* ledger write fails has not reached the provider
RecordedFirst(S) == LedgerWriteFailed(S) /\ S.err => S.provWrites = 0

\* /sync/calendar/create for an item that has no matching remote event
C25_Create ==
    \A itemId \in ItemIds, n \in Names, t \in Times :
        \A S \in {SyncCalendarCreate(Store(LedgerDown), itemId, Title(0, n), t, t + 1)} :
            RecordedFirst(S)

\* /sync/calendar/update of a linked item
C25_Update ==
    \A id \in DOMAIN items, t \in Times :
        \A S \in {SyncCalendarUpdate(Store(LedgerDown), id, items[id].googleCalendarId,
                                     NoTitle, t, t + 1)} :
            RecordedFirst(S)

\* The local-to-remote phase of /sync/full
C25_Full ==
    \A w \in Windows :
        \A S \in {SyncFull(Store(LedgerDown), w[1], w[2])} :
            RecordedFirst(S)

\* C25: for every local create or update pushed to the provider (sync
\* create, sync update, the local-to-remote create of a full sync),
\* markAppModified is called immediately before the provider call that
\* implements the change.
C25_RecordBeforePush == C25_Create /\ C25_Update /\ C25_Full

\* ---------------------------------------------------------------------
\* C26: every linked item has its SyncState record
\* ---------------------------------------------------------------------

\* The ledger of S maps the event of item id to that item
Recorded(S, id) ==
    \E r \in S.sync : r.googleCalendarId = S.items[id].googleCalendarId /\ r.itemId = id

\* Every item of S that carries a googleCalendarId is recorded
AllRecorded(S) ==
    \A id \in DOMAIN S.items : S.items[id].googleCalendarId # NoId => Recorded(S, id)

\* C26: a SyncState record is created the instant a pairing is learned:
\* whenever a sync create, a webhook processing or a full sync has
\* finished, every local item that carries a googleCalendarId has a
\* SyncState record mapping that googleCalendarId to its itemId.
C26_SyncRecordCreation == AllRecorded(Store(AllUp))

\* ---------------------------------------------------------------------
\* C27: deleting an item removes its SyncState record
\* ---------------------------------------------------------------------

\* No record of S refers to an item that the request deleted
Cleaned(S) ==
    \A r \in S.sync : r.itemId \in DOMAIN items => r.itemId \in DOMAIN S.items

\* DELETE /items/:id, with its call of /sync/calendar/delete
C27_ByUser ==
    \A id \in DOMAIN items :
        \A S \in {ItemsDelete(Store(AllUp), id)} : ~S.err => Cleaned(S)

\* The deletions of the webhook and of the full sync
C27_ByPropagation ==
    \A w \in Windows :
        /\ \A S \in {WebhookPost(Store(AllUp), "known", w[1], w[2])} : Cleaned(S)
        /\ \A S \in {SyncFull(Store(AllUp), w[1], w[2])} : Cleaned(S)

\* C27: whenever a local item is deleted, by the user through the item
\* store and POST /sync/calendar/delete as well as by remote deletion
\* propagation, its SyncState record is removed, so no SyncState record
\* refers to the itemId of a deleted item.
C27_CascadingCleanup == C27_ByUser /\ C27_ByPropagation

\* ---------------------------------------------------------------------
\* C28: the notifications that stop early
\* ---------------------------------------------------------------------

Headers == ResourceIds \cup {NoResource}

\* The request stopped before the provider was called and left the
\* items and the ledger as they were; the registry lookup and the
\* credential request are the only work it can have done
StoppedEarly(S) ==
    /\ S.work <= 2 /\ S.provWrites = 0 /\ S.remote = remote
    /\ S.items = items /\ S.sync = syncStates
    /\ S.status = 200 /\ ~S.err

\* The header decides whenever it is present, the body otherwise
C28_HeaderFirst ==
    \A env \in WebhookEnvs, header \in ResourceIds, body \in Headers :
        /\ GoogleCalendarNotification(Store(env), header, body, Whole[1], Whole[2])
               = GoogleCalendarNotification(Store(env), header, NoResource, Whole[1], Whole[2])
        /\ GoogleCalendarNotification(Store(env), NoResource, body, Whole[1], Whole[2])
               = GoogleCalendarNotification(Store(env), body, NoResource, Whole[1], Whole[2])

\* C28: the resource id is taken from the X-Goog-Resource-Id header first
\* and from the body's resourceId otherwise; a notification with no
\* resource id, with a resource id that resolves to no user, or for which
\* no bearer credential can be obtained causes no provider call and leaves
\* the items and the ledger unchanged.
C28_WebhookEarlyExits ==
    /\ C28_HeaderFirst
    /\ \A env \in WebhookEnvs, header \in Headers, body \in Headers :
           \A S \in {GoogleCalendarNotification(Store(env), header, body, Whole[1], Whole[2])} :
               (\/ ResourceIdOf(header, body) = NoResource
                \/ GetUserIdFromResourceId(subscriptions, ResourceIdOf(header, body)) = NoUser
                \/ ~env.serviceToken
                \/ ~env.cred)
               => StoppedEarly(S)

\* User u1 is subscribed and the calendar holds a change that a processed
\* notification applies; a notification whose header names an unknown
\* resource and whose body names the user's stops early, and so does one
\* of the user's resource without a credential
C28_Witness ==
    \E a \in subscriptions, other \in ResourceIds :
        /\ a.userId = "u1"
        /\ GetUserIdFromResourceId(subscriptions, other) = NoUser
        /\ \E S \in {GoogleCalendarNotification(Store(AllUp), a.resourceId, other,
                                                Whole[1], Whole[2])} :
               S.items # items /\ S.sync # syncStates
        /\ \E S \in {GoogleCalendarNotification(Store(AllUp), NoResource, a.resourceId,
                                                Whole[1], Whole[2])} :
               S.items # items
        /\ StoppedEarly(GoogleCalendarNotification(Store(AllUp), other, a.resourceId,
                                                   Whole[1], Whole[2]))
        /\ StoppedEarly(GoogleCalendarNotification(Store([AllUp EXCEPT !.cred = FALSE]),
                                                   a.resourceId, NoResource,
                                                   Whole[1], Whole[2]))

\* ---------------------------------------------------------------------
\* C29: the effect of markGoogleModified
\* ---------------------------------------------------------------------

\* C29: markGoogleModified(itemId, googleCalendarId, t) leaves an existing
\* record's lastAppModified unchanged (and sets it to the current time only
\* for a brand-new record), sets lastGoogleModified to t, clears syncing,
\* and leaves every record with a different googleCalendarId and a
\* different itemId unchanged.
C29_MarkGoogleModifiedEffect ==
    \A itemId \in ItemIds, g \in EventIds, t \in 0..MaxClock :
        \A after \in {MarkGoogleModified(syncStates, itemId, g, t, clock)} :
            /\ \E r \in after :
                   /\ r.googleCalendarId = g /\ r.itemId = itemId
                   /\ r.lastGoogleModified = t
                   /\ ~r.syncing
                   /\ \A old \in syncStates :
                          old.googleCalendarId = g => r.lastAppModified = old.lastAppModified
                   /\ (\A old \in syncStates : old.googleCalendarId # g)
                          => r.lastAppModified = clock
            /\ \A r, s \in after : r.googleCalendarId = g /\ s.googleCalendarId = g => r = s
            /\ \A old \in syncStates :
                   (old.googleCalendarId # g /\ old.itemId # itemId) => old \in after

\* The ledger holds a record of the event, written by a local change at
\* an earlier time and still flagged, and a record of another pair
C29_Witness ==
    \E old, other \in syncStates :
        /\ old.lastAppModified < clock /\ old.syncing
        /\ other.googleCalendarId # old.googleCalendarId /\ other.itemId # old.itemId
        /\ MarkGoogleModified(syncStates, old.itemId, old.googleCalendarId, clock, clock)
               # syncStates

\* ---------------------------------------------------------------------
\* C30: the syncing flag
\* ---------------------------------------------------------------------

\* No request is between two of its steps
NoPushInFlight == \A p \in DOMAIN procs : procs[p].pc = "idle"

\* C30: a SyncState record's syncing flag is true only while a push to the
\* provider for that event is in flight; in every state where no sync
\* create, sync update or full-sync push for that event is in progress,
\* the flag is false.
C30_BusyFlag == NoPushInFlight => \A r \in syncStates : ~r.syncing

\* ---------------------------------------------------------------------
\* C31: shouldProcessWebhook fails open
\* ---------------------------------------------------------------------

\* C31: when the ledger lookup inside shouldProcessWebhook fails, the
\* function returns true and raises no error, for every googleCalendarId
\* and timestamp.
C31_FailOpen ==
    \A g \in EventIds, t \in {NoTime} \cup (0..MaxClock) :
        \A call \in {ShouldProcessWebhookCall(syncStates, g, t, FALSE)} :
            call.ret /\ ~call.err

\* The ledger holds a record that makes the function answer false for a
\* listed event, and the notification processed while the lookup fails
\* writes the item that the one processed with the lookup left alone
C31_Witness ==
    \E g \in DOMAIN remote :
        /\ ~ShouldProcessWebhookCall(syncStates, g, remote[g].updated, TRUE).ret
        /\ WebhookPost(Store(AllUp), "known", Whole[1], Whole[2]).items = items
        /\ \E S \in {WebhookPost(Store(LookupDown), "known", Whole[1], Whole[2])} :
               /\ ~S.err
               /\ S.items # items
               /\ \E e \in S.log : e.kind = "apply" /\ e.g = g

\* ---------------------------------------------------------------------
\* C32: a local deletion is pushed to the provider
\* ---------------------------------------------------------------------

\* DELETE /items/:id of a linked item of the type, all collaborators
\* answering, has removed the item's event from the calendar when it answers
DeletionPushed(type) ==
    \A id \in DOMAIN items :
        (items[id].type = type /\ items[id].googleCalendarId \in DOMAIN remote) =>
            \A S \in {ItemsDelete(Store(AllUp), id)} :
                /\ id \notin DOMAIN S.items
                /\ items[id].googleCalendarId \notin DOMAIN S.remote

C32_Event == DeletionPushed("event")

C32_Reminder == DeletionPushed("reminder")

\* C32: deleting a local event or reminder that carries a googleCalendarId
\* calls the integration-service to delete the corresponding remote event
\* before the item-service answers, so that a later full sync does not
\* re-create the deleted item from the remote event.
C32_LocalDeletionPushed == C32_Event /\ C32_Reminder

\* ---------------------------------------------------------------------
\* C33: a failing provider call is reported to its caller
\* ---------------------------------------------------------------------

\* A request during which the provider does not answer
ProviderFails == Store([AllUp EXCEPT !.provider = FALSE])

\* createCalendarEvent, updateCalendarEvent and deleteCalendarEvent throw
C33_Events ==
    \A n \in Names, t \in Times, g \in EventIds :
        /\ CreateCalendarEvent(ProviderFails, Title(0, n), t, t + 1).err
        /\ UpdateCalendarEvent(ProviderFails, g, Title(0, n), t, t + 1).err
        /\ DeleteCalendarEvent(ProviderFails, g).err
        /\ CreateCalendarEvent(ProviderFails, Title(0, n), t, t + 1).provWrites = 0

\* subscribeToCalendar and unsubscribeFromCalendar throw
C33_Channels ==
    \A resourceId \in ResourceIds, a \in subscriptions :
        /\ SubscribeToCalendar(ProviderFails, resourceId).err
        /\ UnsubscribeFromCalendar(ProviderFails, a.channelId, a.resourceId).err

\* The listing of findCalendarEventByTitleAndTime: a failure is not
\* answered with the result that stands for no matching event
C33_Finder ==
    \A n \in Names, t \in Times :
        FindCalendarEventByTitleAndTime(ProviderFails, Title(0, n), t) # NoId

\* C33: every failing provider call made through the calendar service
\* (create, update, delete, get, list, watch, stop), including the event
\* listing used for duplicate resolution, is reported to its caller as a
\* failure and is not retried; no failure is turned into a normal result
\* such as no matching event.
C33_ProviderFailuresSurfaced == C33_Events /\ C33_Channels /\ C33_Finder

\* ---------------------------------------------------------------------
\* C34: the remote-to-local phase of the full sync writes one side only
\* ---------------------------------------------------------------------

\* C34: when the full sync applies a remote event's fields to a matched
\* local item (remote-to-local update or create), it causes no create or
\* update of any event at the provider for that item; only the stale side
\* is written.
C34_MinimalWrites ==
    \A w \in Windows :
        \A S \in {FullUpserts(Store(AllUp), w[1], w[2])} :
            ~S.err => /\ S.provWrites = 0
                      /\ S.remote = remote

\* ---------------------------------------------------------------------
\* C35: the webhook only reads from the provider
\* ---------------------------------------------------------------------

\* C35: for every notification and every reachable state, the processing
\* that follows the acknowledgment performs only reads on the provider (the
\* event listing) and creates, updates or deletes only local items and
\* SyncState records; it never creates, updates or deletes a remote event.
C35_WebhookReadOnly ==
    \A q \in WebhookRequests :
        \A S \in {Notified(q)} :
            /\ S.provWrites = 0
            /\ S.remote = remote
            /\ S.nextEvent = nextEvent

\* A notification whose processing updates an item from its event,
\* creates an item for an event without one, or deletes an item whose
\* event is gone, and writes the ledger
C35_Witness ==
    \E q \in WebhookRequests :
        \E S \in {Notified(q)} :
            /\ \E e \in S.log : e.kind = "apply"
            /\ \E e \in S.log : e.kind = "create"
            /\ S.sync # syncStates
            /\ S.items # items

\* ---------------------------------------------------------------------
\* C36: the ledger and the items agree
\* ---------------------------------------------------------------------

\* C36: in every state reached after a sync create, a webhook processing
\* or a full sync has finished, each SyncState record (itemId,
\* googleCalendarId) whose local item exists refers to an item whose own
\* googleCalendarId equals the record's googleCalendarId.
C36_LedgerItemsAgree ==
    \A r \in syncStates :
        r.itemId \in DOMAIN items => items[r.itemId].googleCalendarId = r.googleCalendarId

\* ---------------------------------------------------------------------
\* C37: no deletion of an item whose event exists
\* ---------------------------------------------------------------------

\* Every item that the request deleted was linked to an event that the
\* calendar no longer holds
OnlyGone(S) ==
    \A id \in DOMAIN items \ DOMAIN S.items :
        items[id].googleCalendarId \notin DOMAIN remote

C37_Webhook ==
    \A w \in Windows : OnlyGone(WebhookPost(Store(AllUp), "known", w[1], w[2]))

C37_Full ==
    \A w \in Windows : OnlyGone(SyncFull(Store(AllUp), w[1], w[2]))

\* C37: remote deletion propagation (webhook and full sync) deletes a
\* local item only when its linked remote event no longer exists at the
\* provider; a linked item whose remote event still exists (beyond the
\* listing's result cap, outside the listed window, or without a start or
\* end date-time) is never deleted.
C37_NoFalseDeletion == C37_Webhook /\ C37_Full

\* ---------------------------------------------------------------------
\* C38: the reminder prefix does not accumulate
\* ---------------------------------------------------------------------

\* The reminders of S that the request found without a prefix
Prefixed(S) ==
    {id \in DOMAIN items \cap DOMAIN S.items :
        /\ items[id].type = "reminder" /\ items[id].title.bells = 0
        /\ S.items[id].title.bells > 0}

\* Applying a remote change leaves the local title of a reminder as it was
C38_Apply ==
    \A w \in Windows :
        /\ Prefixed(WebhookPost(Store(AllUp), "known", w[1], w[2])) = {}
        /\ Prefixed(SyncFull(Store(AllUp), w[1], w[2])) = {}

\* Pushing a reminder leaves one prefix in the remote title
C38_Push ==
    \A id \in DOMAIN items, t \in Times :
        (items[id].type = "reminder" /\ items[id].googleCalendarId \in DOMAIN remote) =>
            \A S \in {ItemsPatch(Store(AllUp), id, MoveData(items[id], t))} :
                S.remote[items[id].googleCalendarId].summary.bells <= 1

\* C38: after a reminder titled X is pushed to the provider and a later
\* remote change to its projected event is applied back to the local item
\* (webhook or full sync), the local title is still X without the reminder
\* prefix, so any number of push/apply cycles never accumulates prefixes in
\* the local or the remote title.
C38_ReminderTitleRoundTrip == C38_Apply /\ C38_Push

\* ---------------------------------------------------------------------
\* C39: a failed push leaves the ledger as it was
\* ---------------------------------------------------------------------

\* Requests during which the credential or the provider fails
FailedPushEnvs == {[AllUp EXCEPT !.cred = FALSE], [AllUp EXCEPT !.provider = FALSE]}

====
